---- MODULE Spec2Model ----
(***************************************************************************)
(* A model of construct's scenario execution engine: ScenarioRunner.run    *)
(* (src/src/construct/runner.py) together with the data model it mutates   *)
(* (src/src/construct/models.py).  One action per stretch of code between  *)
(* two points where control leaves the runner (an await, the per-step      *)
(* observer call, the return).  The Odyssey client, the video helpers, the *)
(* VLM backend, the observer and the evaluators are collaborators: each    *)
(* call to one of them either returns a value drawn from a small set or    *)
(* raises an exception drawn from a small set.  Standard-library calls     *)
(* (time.monotonic, tempfile, logging) are taken to succeed.               *)
(***************************************************************************)
EXTENDS Integers, Sequences, FiniteSets, TLC

\* ------------------------------------------------------------------ bounds
MaxSteps == 2
MaxTimeout == 1
MaxEvals == 2
\* The clock saturates one tick after the largest budget: every reading at or
\* above timeout_s is treated alike by the code (remaining <= 0).
MaxClock == MaxTimeout + 1
\* interact calls the task using a session makes at most
MaxCommands == 2
\* longest timeout given to wait_for_frame, in clock ticks
MaxWait == 2
\* scenarios the CLI runs one after the other with one runner and one oracle
MaxScenarios == 2
\* longest list of expected actions and of recorded steps given to an evaluator
MaxActions == 2
\* calls of evaluate made on one scenario and result
MaxCalls == 3
\* longest list of sub-evaluators of a CompositeEvaluator
MaxSubs == 2
\* results added to one report
MaxResults == 2

NULL == "null"

\* ------------------------------------------------------------- data model
TerminationReason == {"done", "max_steps", "timeout", "error"}

\* Action values the oracle may choose (name only; parameters are not needed
\* by the control loop).
ActionNames == {"move_forward", "pick_up", "done"}

\* The answers VLMBackend.decide may give.
VLMResponse ==
    { [action |-> "move_forward", done |-> FALSE, latency_ms |-> 1, cost_usd |-> 2],
      [action |-> "pick_up",      done |-> FALSE, latency_ms |-> 2, cost_usd |-> 0],
      [action |-> "done",         done |-> TRUE,  latency_ms |-> 1, cost_usd |-> 1],
      [action |-> "pick_up",      done |-> TRUE,  latency_ms |-> 0, cost_usd |-> 2] }

\* Placeholder for the local vlm_resp before the first answer.
NoResponse == [action |-> NULL, done |-> FALSE, latency_ms |-> 0, cost_usd |-> 0]

\* Exceptions a collaborator may raise: the class decides which except
\* clause of run catches it, the message is what str(exc) yields. A timeout
\* is raised the way asyncio raises it, without a message.
ExcClasses == {"TimeoutError", "RuntimeError"}
ExceptionSubclasses == {"TimeoutError", "RuntimeError"}
Messages == {"", "boom"}
Exc ==
    { e \in [cls : ExcClasses, msg : Messages] :
        e.cls = "TimeoutError" => e.msg = "" }

SimulationJobStatus == {"pending", "completed", "failed"}
ErrorMessages == {NULL, "", "GPU out of memory"}

EvaluatorNames == {"exact_path", "composite"}
EvalScore == { [score |-> 1, passed |-> TRUE], [score |-> 0, passed |-> FALSE] }

\* (variant: the steps are numbered from one)
StepResultOneBased(idx, resp) ==
    [step_index |-> idx + 1, action |-> resp.action,
     latency_ms |-> resp.latency_ms, cost_usd |-> resp.cost_usd]

StepResult(idx, resp) ==
    [step_index |-> idx, action |-> resp.action,
     latency_ms |-> resp.latency_ms, cost_usd |-> resp.cost_usd]

\* ScenarioResult(scenario=scenario): the dataclass defaults.
ScenarioResult ==
    [steps |-> << >>,
     termination_reason |-> "done",
     error |-> NULL,
     eval_scores |-> << >>,
     total_latency_ms |-> 0,
     total_cost_usd |-> 0]

RECURSIVE SumLatency(_)
SumLatency(steps) ==
    IF steps = << >> THEN 0
    ELSE SumLatency(SubSeq(steps, 1, Len(steps) - 1)) + steps[Len(steps)].latency_ms

RECURSIVE SumCost(_)
SumCost(steps) ==
    IF steps = << >> THEN 0
    ELSE SumCost(SubSeq(steps, 1, Len(steps) - 1)) + steps[Len(steps)].cost_usd

\* ------------------------------------------------------------------ state
VARIABLES
    max_steps,      \* scenario.max_steps
    timeout_s,      \* scenario.timeout_s
    on_step,        \* TRUE iff run was given an observer (on_step is not None)
    evaluators,     \* self._evaluators: a sequence of evaluator names
    prompt_builder, \* the prompt_builder the runner was built with, NULL = None
    current_prompt, \* the local current_prompt: a sequence of pieces of text
    clipLog,        \* environment side: one entry per simulate call, in call
                    \* order, with the prompt and the image of its start event
    observed,       \* observer side: one entry per on_step call, in call order
    pc,             \* where the coroutine run is
    now,            \* time.monotonic() - t0
    step_idx,       \* the loop variable of run
    elapsed,        \* the local elapsed of the current iteration
    remaining,      \* the local remaining of the current iteration
    job,            \* the local job of _run_clip: [status, error_message]
    frame,          \* the local frame: number of the clip it was cut from, 0 = unset
    clips,          \* number of simulate jobs submitted so far
    vlm_resp,       \* the local vlm_resp of the current iteration
    result,         \* the ScenarioResult under construction
    eval_idx,       \* position of the evaluator loop
    raised,         \* the exception run let escape to its caller, or NULL
    vlmLog,         \* oracle side: one entry per decide call, in call order
    evalLog,        \* evaluator side: one entry per evaluate call, in call order
    hist            \* observation only: whose failure left the try block
                    \* (failed, exc, msg), the step at which the budget check
                    \* ended the loop (budget_exit, -1 if it did not) and
                    \* whether a done answer of the oracle was taken after
                    \* the deadline given to wait_for had passed (late_done)

\* An OdysseySession and the task that uses it as an async context manager.
VARIABLES
    _frame,         \* self._frame: the last frame delivered, NoFrame = None
    _frame_event,   \* self._frame_event: whether the asyncio.Event is set
    _connected,     \* self._connected
    spc,            \* where the task using the session is
    waiter,         \* the future of the task inside _frame_event.wait()
    wait_left,      \* time left of the timeout given to wait_for_frame
    sent,           \* environment side: commands submitted by interact
    applied,        \* environment side: commands applied to the episode
    got,            \* the frame the last wait_for_frame returned
    exc_val,        \* the exception on its way out of the task, or NULL
    calls,          \* client side: the methods of the client called so far
    shist           \* observation only: the frame most recently handed to
                    \* the callback (last), whether a delivery replaced a
                    \* different frame while nobody waited (overwrote),
                    \* whether connect succeeded (opened),
                    \* and whether a frame was delivered to a pending waiter
                    \* with time left without the waiter being woken (lost)

\* The state of a run of ScenarioRunner.run.
runner == << max_steps, timeout_s, on_step, evaluators, prompt_builder,
             current_prompt, clipLog, observed, pc, now, step_idx,
             elapsed, remaining, job, frame, clips, vlm_resp, result, eval_idx, raised,
             vlmLog, evalLog, hist >>

\* The state of a session and of the task using it.
session == << _frame, _frame_event, _connected, spc, waiter, wait_left, sent,
              applied, got, exc_val, calls, shist >>

\* A GeminiRoboticsBackend and the loop of the CLI that runs the scenarios of
\* a file with it.
VARIABLES
    _conversation_history,  \* self._conversation_history: the turns kept
    contents,       \* what the last generate_content call was given
    scenario_no,    \* the scenario the loop of _run_command is at, from 1
    step_index,     \* step index of the next decide call of the current run
    bpc             \* "run": a run is in progress, "between": it has ended,
                    \* "finished": the loop over the scenarios is over

\* The state of the oracle backend and of the CLI loop.
backend == << _conversation_history, contents, scenario_no, step_index, bpc >>

\* The built-in evaluators applied to one scenario and one result.
VARIABLES
    check_parameters,   \* self._check_parameters of the ExactPathEvaluator
    _evaluators,        \* self._evaluators of the CompositeEvaluator: exact
                        \* path evaluators, each given by its check_parameters
    _mode,              \* self._mode of the CompositeEvaluator
    expected_actions,   \* scenario.expected_actions
    eresult,            \* the ScenarioResult given to evaluate as result
    scores,             \* the EvalScores returned so far, in call order
    merged              \* whether the runner has stored the last of them

\* The state of the evaluators, their arguments and their callers.
evaluation == << check_parameters, _evaluators, _mode, expected_actions, eresult,
                 scores, merged >>

\* One call of CompositeEvaluator.evaluate with sub-evaluators of any kind.
VARIABLES
    sub_evaluators, \* self._evaluators: the sub-evaluators, by name
    combine_mode,   \* self._mode
    _threshold,     \* self._threshold
    sub_scores,     \* the local sub_scores
    invocations,    \* sub-evaluator side: the positions of the sub-evaluators
                    \* whose evaluate was called, in call order
    cpc,            \* where the call is: "loop", "returned" or "raised"
    composite_score \* the EvalScore the call returned

\* The state of a call of CompositeEvaluator.evaluate.
composition == << sub_evaluators, combine_mode, _threshold, sub_scores,
                  invocations, cpc, composite_score >>

\* A StructuredReport and its reader.
VARIABLES
    _results,       \* self._results
    report          \* what the last reading of the report gave: all_passed
                    \* and to_dict()

\* The state of a report.
reporting == << _results, report >>

\* What the steps of a run, of a session, of the CLI loop, of an evaluation,
\* of a composite evaluation and of a report leave alone.
notRunner == << session, backend, evaluation, composition, reporting >>
notSession == << runner, backend, evaluation, composition, reporting >>
notBackend == << runner, session, evaluation, composition, reporting >>
notEvaluation == << runner, session, backend, composition, reporting >>
notComposition == << runner, session, backend, evaluation, reporting >>
notReporting == << runner, session, backend, evaluation, composition >>

vars == << max_steps, timeout_s, on_step, evaluators, pc, now, step_idx,
           elapsed, remaining, job, frame, clips, vlm_resp, result, eval_idx, raised,
           vlmLog, evalLog, hist, prompt_builder, current_prompt, clipLog,
           observed, _frame, _frame_event, _connected, spc, waiter,
           wait_left, sent, applied, got, exc_val, calls, shist,
           _conversation_history, contents, scenario_no, step_index, bpc,
           check_parameters, _evaluators, _mode, expected_actions, eresult,
           scores, merged, sub_evaluators, combine_mode, _threshold,
           sub_scores, invocations, cpc, composite_score, _results, report >>

\* What a run is given and never changes: the scenario's budgets, the
\* observer, the runner's evaluators and its prompt builder.
config == << max_steps, timeout_s, on_step, evaluators, prompt_builder >>

\* The prompt of the clip in the making and the clips started so far.
chain == << current_prompt, clipLog >>

NoJob == [status |-> NULL, error_message |-> NULL]

\* ------------------------------------------------------------ clip chain
\* A prompt is a sequence of pieces of text; a frame is the number of the
\* clip it was cut from, and the scenario's own image is number 0.
ScenarioPrompt == << "scenario.prompt" >>
ScenarioImage == 0

\* prompt_builder given to the constructor: None, or a builder like the one
\* of tests/test_runner.py:148-149.
PromptBuilders == {NULL, "custom"}

\* Action.to_interact_prompt (models.py:29-36) for an action without raw
\* text and without parameters: the name is the only part joined.
ToInteractPrompt(action) == << action >>

\* default_prompt_builder (prompt.py:12-14)
DefaultPromptBuilder(previous_prompt, action) ==
    previous_prompt \o << "\n\n" >> \o ToInteractPrompt(action)

\* custom_builder (tests/test_runner.py:148-149)
CustomBuilder(previous_prompt, action) == << "CUSTOM: ", action >>

\* (variant: every prompt is built from the scenario's prompt)
PromptBuilderFromScenario(builder, previous_prompt, action) ==
    IF builder = NULL
    THEN DefaultPromptBuilder(ScenarioPrompt, action)
    ELSE CustomBuilder(ScenarioPrompt, action)

\* self._prompt_builder(current_prompt, vlm_resp.action), where
\* self._prompt_builder = prompt_builder or default_prompt_builder
\* (runner.py:43, 129)
PromptBuilder(builder, previous_prompt, action) ==
    IF builder = NULL
    THEN DefaultPromptBuilder(previous_prompt, action)
    ELSE CustomBuilder(previous_prompt, action)

\* (variant: the observer sees the totals as they were before the step)
ObservationBeforeTotals(idx, res, frm, started) ==
    [step_index |-> idx,
     step |-> res.steps[Len(res.steps)],
     frame |-> frm,
     steps |-> Len(res.steps),
     total_latency_ms |-> res.total_latency_ms - res.steps[Len(res.steps)].latency_ms,
     total_cost_usd |-> res.total_cost_usd - res.steps[Len(res.steps)].cost_usd,
     clips |-> started]

\* on_step(step_idx, step, frame) (runner.py:121-122): what the observer is
\* given, and what it can see of the run at that moment: the steps recorded,
\* the totals and the number of clips started.
Observation(idx, res, frm, started) ==
    [step_index |-> idx,
     step |-> res.steps[Len(res.steps)],
     frame |-> frm,
     steps |-> Len(res.steps),
     total_latency_ms |-> res.total_latency_ms,
     total_cost_usd |-> res.total_cost_usd,
     clips |-> started]

\* The lists of evaluators a runner may be given, by name. The run treats
\* all names alike, so of two lists that differ by swapping the two names
\* only the one that starts with "exact_path" is kept.
EvaluatorLists ==
    { l \in UNION { [1..n -> EvaluatorNames] : n \in 0..MaxEvals } :
        l # << >> => l[1] = "exact_path" }

\* The frame slot before the first frame: self._frame = None.
NoFrame == -1

\* OdysseySession(config) (session.py:30-35), before the task enters the
\* async with block.
SessionInit ==
    /\ _frame = NoFrame
    /\ _frame_event = FALSE
    /\ _connected = FALSE
    /\ spc = "aenter"
    /\ waiter = "none"
    /\ wait_left = 0
    /\ sent = 0
    /\ applied = 0
    /\ got = NoFrame
    /\ exc_val = NULL
    /\ calls = << >>
    /\ shist = [opened |-> FALSE, lost |-> FALSE, last |-> NoFrame,
                overwrote |-> FALSE]

\* config = ConstructConfig(); vlm = GeminiRoboticsBackend(config); runner =
\* ScenarioRunner(config=config, vlm=vlm) (cli.py:110-112, gemini.py:79-83),
\* and the loop is at the first scenario.
BackendInit ==
    /\ _conversation_history = << >>
    /\ contents = << >>
    /\ scenario_no = 1
    /\ step_index = 0
    /\ bpc = "run"

\* ------------------------------------------------- evaluators' arguments
\* Action(name, parameters) values of expected and recorded actions; a
\* parameter map is a function from its keys.
NoParameters == [k \in {} |-> 0]
EvalActions ==
    { [name |-> "move_forward", parameters |-> NoParameters],
      [name |-> "move_forward", parameters |-> [distance |-> 1]],
      [name |-> "pick_up", parameters |-> NoParameters] }

\* The actions a scenario expects: one with a parameter and one without.
ExpectedActions == { a \in EvalActions : a.name = "pick_up" \/ a.parameters # NoParameters }

ActionLists == UNION { [1..n -> EvalActions] : n \in 0..MaxActions }
ExpectedLists == UNION { [1..n -> ExpectedActions] : n \in 0..MaxActions }

\* A result as run returns it after the step budget was used up, with the
\* given actions recorded.
ScenarioResultOf(actions) ==
    [steps |-> [i \in 1..Len(actions) |->
                    [step_index |-> i - 1, action |-> actions[i],
                     latency_ms |-> 1, cost_usd |-> 1]],
     termination_reason |-> "max_steps",
     error |-> NULL,
     eval_scores |-> << >>,
     total_latency_ms |-> Len(actions),
     total_cost_usd |-> Len(actions)]

\* CombineMode (composite.py:11-14)
CombineMode == {"and", "or", "threshold"}

\* The lists of sub-evaluators a CompositeEvaluator is built with here:
\* none, or an exact path evaluator that checks parameters and one that
\* does not.
SubEvaluatorLists == { << >>, << TRUE, FALSE >> }

\* ExactPathEvaluator(check_parameters=...), CompositeEvaluator(evaluators,
\* mode) with the default threshold (exact.py:12-13, composite.py:20-28),
\* a scenario with its expected actions and a result with its steps.
EvaluationInit ==
    /\ check_parameters \in BOOLEAN
    /\ _evaluators \in SubEvaluatorLists
    /\ _mode \in CombineMode
    /\ expected_actions \in ExpectedLists
    /\ eresult \in { ScenarioResultOf(actions) : actions \in ActionLists }
    /\ scores = << >>
    /\ merged = FALSE

\* Nothing is evaluated: the evaluators as built by default, a scenario
\* without expected actions and a result without steps.
NoEvaluation ==
    /\ check_parameters = TRUE
    /\ _evaluators = << >>
    /\ _mode = "and"
    /\ expected_actions = << >>
    /\ eresult = ScenarioResultOf(<< >>)
    /\ scores = << >>
    /\ merged = FALSE

\* --------------------------------------------- composite evaluator's inputs
\* A score is the exact quotient num/den of the division the code makes.
Ratio(n, d) == [num |-> n, den |-> d]

\* threshold: float = 0.7 (composite.py:24)
DefaultThreshold == Ratio(7, 10)

\* The thresholds a CompositeEvaluator is built with here: one that a mean
\* of the scores below can equal, the default, and one above every score.
Thresholds == { Ratio(1, 2), DefaultThreshold, Ratio(3, 2) }

\* The name of the sub-evaluator at position i.
SubName(i) == IF i % 2 = 1 THEN "exact_path" ELSE "outcome"

SubEvaluators == { [i \in 1..n |-> SubName(i)] : n \in 0..MaxSubs }

\* What a sub-evaluator may return: a score and, independent of it, passed.
\* The scores are binary fractions, whose sums and means the floating-point
\* arithmetic of the code computes exactly.
SubScoreValues == { Ratio(0, 1), Ratio(1, 2), Ratio(1, 1) }

\* Placeholder for the score of a call that has not returned.
NoCompositeScore ==
    [name |-> NULL, score |-> Ratio(0, 1), passed |-> FALSE, details |-> NULL]

\* CompositeEvaluator(evaluators, mode, threshold) (composite.py:20-28) and
\* the entry of evaluate (composite.py:35).
CompositionInit ==
    /\ sub_evaluators \in SubEvaluators
    /\ combine_mode \in CombineMode
    /\ _threshold \in Thresholds
    /\ sub_scores = << >>
    /\ invocations = << >>
    /\ cpc = "loop"
    /\ composite_score = NoCompositeScore

\* No composite evaluator as built by default is called: the call is over.
NoComposition ==
    /\ sub_evaluators = << >>
    /\ combine_mode = "and"
    /\ _threshold = DefaultThreshold
    /\ sub_scores = << >>
    /\ invocations = << >>
    /\ cpc = "returned"
    /\ composite_score = NoCompositeScore

\* ---------------------------------------------------------------- report
\* Placeholder for a report that was not read yet.
NoReport == [all_passed |-> FALSE, to_dict |-> << >>, read |-> FALSE]

\* StructuredReport() (report.py:14-15)
ReportInit ==
    /\ _results = << >>
    /\ report = NoReport

\* The locals and the arguments of run when it is entered, the result being
\* ScenarioResult(scenario=scenario) (runner.py:77-80).
RunnerInit ==
    /\ max_steps \in 0..MaxSteps
    /\ timeout_s \in 0..MaxTimeout
    /\ on_step \in BOOLEAN
    /\ evaluators \in EvaluatorLists
    /\ pc = "start"
    /\ now = 0
    /\ step_idx = -1
    /\ elapsed = 0
    /\ remaining = 0
    /\ job = NoJob
    /\ frame = 0
    /\ clips = 0
    /\ vlm_resp = NoResponse
    /\ result = ScenarioResult
    /\ eval_idx = 1
    /\ raised = NULL
    /\ vlmLog = << >>
    /\ evalLog = << >>
    /\ hist = [failed |-> NULL, exc |-> NULL, msg |-> NULL, budget_exit |-> -1,
               late_done |-> FALSE]
    /\ current_prompt = << >>
    /\ clipLog = << >>
    /\ observed = << >>

\* A run of ScenarioRunner.run, which uses no OdysseySession: the session
\* stays as constructed. (The oracle of a run is any VLMBackend; the Gemini
\* backend is followed on its own in BackendSpec, the built-in evaluators
\* in EvalSpec.)
RunInit ==
    /\ SessionInit
    /\ BackendInit
    /\ NoEvaluation
    /\ NoComposition
    /\ ReportInit
    /\ RunnerInit

\* ScenarioRunner(config=config, vlm=vlm, evaluators=...): no prompt builder
\* is given and the default one is used (runner.py:36, 43).
Init ==
    /\ RunInit
    /\ prompt_builder = NULL

\* ScenarioRunner(..., prompt_builder=...): the runner is built with or
\* without a prompt builder of its own and with at most one evaluator, for
\* a scenario with the full budgets.
ChainInit ==
    /\ RunInit
    /\ prompt_builder \in PromptBuilders
    /\ max_steps = MaxSteps
    /\ timeout_s = MaxTimeout
    /\ Len(evaluators) <= 1

\* --------------------------------------------------------- exception exit
\* (variant: only the timeout clause is there, anything else escapes)
HandleTimeoutOnly(res, exc) ==
    IF exc.cls = "TimeoutError"
    THEN << [res EXCEPT !.termination_reason = "timeout"], TRUE >>
    ELSE << res, FALSE >>

\* (variant: the catch-all clause comes first and takes timeouts too)
HandleCatchAllFirst(res, exc) ==
    IF exc.cls \in ExceptionSubclasses
    THEN << [res EXCEPT !.termination_reason = "error", !.error = exc.msg], TRUE >>
    ELSE << res, FALSE >>

\* (variant: the timeout clause keeps the message of the exception too)
HandleTimeoutWithMessage(res, exc) ==
    IF exc.cls = "TimeoutError"
    THEN << [res EXCEPT !.termination_reason = "timeout", !.error = exc.msg], TRUE >>
    ELSE IF exc.cls \in ExceptionSubclasses
    THEN << [res EXCEPT !.termination_reason = "error", !.error = exc.msg], TRUE >>
    ELSE << res, FALSE >>

\* The except clauses of run (runner.py:138-143), applied to the exception
\* exc leaving the try block.  The second component tells whether the
\* exception is caught at all.
Handle(res, exc) ==
    IF exc.cls = "TimeoutError"
    THEN << [res EXCEPT !.termination_reason = "timeout"], TRUE >>
    ELSE IF exc.cls \in ExceptionSubclasses
    THEN << [res EXCEPT !.termination_reason = "error", !.error = exc.msg], TRUE >>
    ELSE << res, FALSE >>

\* An exception exc leaves the try block of run.
Raise(exc) ==
    LET h == Handle(result, exc) IN
    /\ result' = h[1]
    /\ IF h[2]
       THEN pc' = "evaluate" /\ raised' = raised
       ELSE pc' = "raised" /\ raised' = exc

\* ------------------------------------------------------------------ clock
\* Time passes. The run reads the clock at the top of an iteration
\* (runner.py:94) and wait_for watches it during the oracle call
\* (runner.py:100-108); time that passes anywhere else shows at the next of
\* these two places, so that is where the clock is advanced.
Tick ==
    /\ pc \in {"loop", "decide"}
    /\ now < MaxClock
    /\ now' = now + 1
    /\ UNCHANGED << config, pc, step_idx,
                    elapsed, remaining, job, frame, clips, vlm_resp, result, eval_idx,
                    raised, vlmLog, evalLog, hist, chain, observed, notRunner >>

\* ------------------------------------------------------- environment side
Jobs ==
    { [status |-> "pending", error_message |-> NULL],
      [status |-> "completed", error_message |-> NULL] }
    \cup { [status |-> "failed", error_message |-> m] : m \in ErrorMessages }

\* (variant: the job's error message is taken as it is)
JobMessageRaw(j) == j.error_message

\* job.error_message or "Simulation job failed" (runner.py:72)
JobMessage(j) ==
    IF j.error_message \in {NULL, ""} THEN "Simulation job failed"
    ELSE j.error_message

\* Note in hist that exception exc, raised by collaborator who, left the try
\* block.
Failed(who, exc) ==
    hist' = [hist EXCEPT !.failed = who, !.exc = exc.cls, !.msg = exc.msg]

\* (variant: a failed job is submitted again)
AfterStatusResubmit(j) ==
    CASE j.status = "pending" ->
            /\ pc' = "sleep"
            /\ UNCHANGED << result, raised, hist >>
      [] j.status = "failed" ->
            /\ pc' = "simulate"
            /\ UNCHANGED << result, raised, hist >>
      [] j.status = "completed" ->
            /\ pc' = "download"
            /\ UNCHANGED << result, raised, hist >>

\* The rest of _run_clip once job holds a fresh status (runner.py:67-75):
\* keep polling, raise for a failed job, or hand the job back to run.
AfterStatus(j) ==
    CASE j.status = "pending" ->
            /\ pc' = "sleep"
            /\ UNCHANGED << result, raised, hist >>
      [] j.status = "failed" ->
            /\ Raise([cls |-> "RuntimeError", msg |-> JobMessage(j)])
            /\ Failed("env", [cls |-> "RuntimeError", msg |-> JobMessage(j)])
      [] j.status = "completed" ->
            /\ pc' = "download"
            /\ UNCHANGED << result, raised, hist >>

\* What the constructor of the client may raise: it awaits nothing, so no
\* timeout of an awaited call can come out of it.
ConstructionErrors == { exc \in Exc : exc.cls # "TimeoutError" }

\* client = Odyssey(api_key=...) (runner.py:82-85)
CreateClient ==
    /\ pc = "start"
    /\ \/ /\ pc' = "simulate"
          /\ UNCHANGED << result, raised, hist >>
       \/ \E exc \in ConstructionErrors : Raise(exc) /\ Failed("env", exc)
    /\ UNCHANGED << notRunner, config, chain, observed, evalLog, now, step_idx, elapsed, remaining, job, frame,
                    clips, vlm_resp, eval_idx, vlmLog >>

\* A clip is started (runner.py:88-89 for the first one, 129-130 for the
\* clip after a step): the prompt is the scenario's or is built by
\* self._prompt_builder, and job = await client.simulate(script=script,
\* portrait=portrait) is called with it and the start image (runner.py:55-65).
\* The call returns a job or raises; a prompt builder of the caller's may
\* raise too, and then simulate is not called.
Simulate ==
    /\ pc = "simulate"
    /\ LET first == step_idx = -1
           prompt == IF first THEN ScenarioPrompt
                     ELSE PromptBuilder(prompt_builder, current_prompt,
                                        vlm_resp.action)
           image == IF first THEN ScenarioImage ELSE frame
       IN \/ /\ current_prompt' = prompt
             /\ clipLog' = Append(clipLog, [prompt |-> prompt, image |-> image])
             /\ \/ \E j \in Jobs :
                      /\ job' = j
                      /\ clips' = clips + 1
                      /\ AfterStatus(j)
                \/ \E exc \in Exc :
                      /\ Raise(exc) /\ Failed("env", exc)
                      /\ UNCHANGED << job, clips >>
          \/ /\ ~first
             /\ prompt_builder # NULL
             /\ \E exc \in Exc : Raise(exc) /\ Failed("env", exc)
             /\ UNCHANGED << job, clips, chain >>
    /\ UNCHANGED << notRunner, config, observed, evalLog, now, step_idx, elapsed, remaining, frame,
                    vlm_resp, eval_idx, vlmLog >>

\* await asyncio.sleep(self._poll_interval_s) (runner.py:68)
Sleep ==
    /\ pc = "sleep"
    /\ pc' = "get_simulate_status"
    /\ UNCHANGED << notRunner, config, chain, observed, evalLog, now, step_idx, elapsed, remaining, job, frame,
                    clips, vlm_resp, result, eval_idx, raised, vlmLog, hist >>

\* job = await client.get_simulate_status(job.job_id) (runner.py:69)
GetSimulateStatus ==
    /\ pc = "get_simulate_status"
    /\ \/ \E j \in Jobs :
             /\ job' = j
             /\ AfterStatus(j)
       \/ \E exc \in Exc :
             /\ Raise(exc) /\ Failed("env", exc)
             /\ UNCHANGED job
    /\ UNCHANGED << notRunner, config, chain, observed, evalLog, now, step_idx, elapsed, remaining, frame, clips,
                    vlm_resp, eval_idx, vlmLog >>

\* video_path = await download_video(job.streams[0].video_url, ...)
\* (runner.py:90, 131-133)
DownloadVideo ==
    /\ pc = "download"
    /\ \/ /\ pc' = "extract"
          /\ UNCHANGED << result, raised, hist >>
       \/ \E exc \in Exc : Raise(exc) /\ Failed("env", exc)
    /\ UNCHANGED << notRunner, config, chain, observed, evalLog, now, step_idx, elapsed, remaining, job, frame,
                    clips, vlm_resp, eval_idx, vlmLog >>

\* frame = extract_last_frame(video_path) (runner.py:91, 134), after which
\* the for statement takes the next index of range(max_steps).
ExtractLastFrame ==
    /\ pc = "extract"
    /\ \/ /\ frame' = clips
          /\ step_idx' = step_idx + 1
          /\ pc' = "loop"
          /\ UNCHANGED << result, raised, hist >>
       \/ \E exc \in Exc :
             /\ Raise(exc) /\ Failed("env", exc)
             /\ UNCHANGED << frame, step_idx >>
    /\ UNCHANGED << notRunner, config, chain, observed, evalLog, now, elapsed, remaining, job, clips, vlm_resp,
                    eval_idx, vlmLog >>

\* ------------------------------------------------------- the control loop
Actions(steps) == [i \in 1..Len(steps) |-> steps[i].action]

\* (variant: the loop runs one index too far)
RangeOneTooFar(idx, n) == idx > n

\* for step_idx in range(max_steps): no index is left (runner.py:93)
RangeExhausted(idx, n) == idx >= n

\* (variant: a budget of exactly zero still counts as time left)
BudgetStrictlyNegative(rem) == rem < 0

\* if remaining <= 0 (runner.py:96)
BudgetExhausted(rem) == rem <= 0

\* (variant: the for statement has no else branch)
ForElseMissing(res) == res

\* else: result.termination_reason = TerminationReason.MAX_STEPS
\* (runner.py:135-136)
ForElse(res) == [res EXCEPT !.termination_reason = "max_steps"]

\* Top of an iteration up to the await of the oracle (runner.py:93-108), or
\* the else branch of the for statement when the range is used up
\* (runner.py:135-136).
LoopHead ==
    /\ pc = "loop"
    /\ IF RangeExhausted(step_idx, max_steps)
       THEN /\ result' = ForElse(result)
            /\ pc' = "evaluate"
            /\ UNCHANGED << elapsed, remaining, vlmLog, hist >>
       ELSE /\ elapsed' = now
            /\ remaining' = timeout_s - now
            /\ IF BudgetExhausted(timeout_s - now)
               THEN /\ result' = [result EXCEPT !.termination_reason = "timeout"]
                    /\ pc' = "evaluate"
                    /\ hist' = [hist EXCEPT !.budget_exit = step_idx]
                    /\ UNCHANGED vlmLog
               ELSE /\ pc' = "decide"
                    /\ vlmLog' = Append(vlmLog,
                           [step_index |-> step_idx,
                            action_history |-> Actions(result.steps),
                            frame |-> frame,
                            outcome |-> "pending",
                            resp |-> NoResponse])
                    /\ UNCHANGED << result, hist >>
    /\ UNCHANGED << notRunner, config, chain, observed, evalLog, now, step_idx, job, frame, clips, vlm_resp,
                    eval_idx, raised >>

Answered(log, o, resp) ==
    [log EXCEPT ![Len(log)].outcome = o, ![Len(log)].resp = resp]

\* (variant: the cost of a step is not added to the total)
RecordWithoutCost(res, idx, resp) ==
    [res EXCEPT !.steps = Append(@, StepResult(idx, resp)),
                !.total_latency_ms = @ + resp.latency_ms]

\* result.steps.append(step) and the two += (runner.py:110-119)
Record(res, idx, resp) ==
    [res EXCEPT !.steps = Append(@, StepResult(idx, resp)),
                !.total_latency_ms = @ + resp.latency_ms,
                !.total_cost_usd = @ + resp.cost_usd]

\* (variant: the done flag is ignored)
DoneCheckIgnored(res, resp) ==
    /\ result' = res
    /\ pc' = "simulate"

\* (variant: every answer is taken as done)
DoneCheckAlways(res, resp) ==
    /\ result' = [res EXCEPT !.termination_reason = "done"]
    /\ pc' = "evaluate"

\* (variant: the budget is looked at again before the answer)
DoneCheckBudgetFirst(res, resp) ==
    IF timeout_s - now <= 0
    THEN /\ result' = [res EXCEPT !.termination_reason = "timeout"]
         /\ pc' = "evaluate"
    ELSE IF resp.done
    THEN /\ result' = [res EXCEPT !.termination_reason = "done"]
         /\ pc' = "evaluate"
    ELSE /\ result' = res
         /\ pc' = "simulate"

\* (variant: a done answer ends the loop as if the steps had run out)
DoneCheckAsMaxSteps(res, resp) ==
    IF resp.done
    THEN /\ result' = [res EXCEPT !.termination_reason = "max_steps"]
         /\ pc' = "evaluate"
    ELSE /\ result' = res
         /\ pc' = "simulate"

\* if vlm_resp.done: ... break; otherwise go on to the next clip
\* (runner.py:124-130)
DoneCheck(res, resp) ==
    IF resp.done
    THEN /\ result' = [res EXCEPT !.termination_reason = "done"]
         /\ pc' = "evaluate"
    ELSE /\ result' = res
         /\ pc' = "simulate"

\* The oracle answers before wait_for gives up (runner.py:100-126).
DecideReturns ==
    /\ pc = "decide"
    /\ \E resp \in VLMResponse :
          /\ vlm_resp' = resp
          /\ vlmLog' = Answered(vlmLog, "returned", resp)
          /\ IF on_step
             THEN /\ result' = Record(result, step_idx, resp)
                  /\ pc' = "on_step"
             ELSE DoneCheck(Record(result, step_idx, resp), resp)
    /\ UNCHANGED << notRunner, config, chain, observed, evalLog, now, step_idx, elapsed, remaining, job, frame,
                    clips, eval_idx, raised >>
    /\ hist' = [hist EXCEPT !.late_done =
                    @ \/ (vlm_resp'.done /\ now >= elapsed + remaining)]

\* self._vlm.decide raises (runner.py:100-108)
DecideRaises ==
    /\ pc = "decide"
    /\ \E exc \in Exc :
          /\ Raise(exc)
          /\ Failed("oracle", exc)
          /\ vlmLog' = Answered(vlmLog, "raised", NoResponse)
    /\ UNCHANGED << notRunner, config, chain, observed, evalLog, now, step_idx, elapsed, remaining, job, frame,
                    clips, vlm_resp, eval_idx >>

\* asyncio.wait_for(..., timeout=remaining) expires (runner.py:100-108)
DecideTimeout ==
    /\ pc = "decide"
    /\ now >= elapsed + remaining
    /\ Raise([cls |-> "TimeoutError", msg |-> ""])
    /\ Failed("wait_for", [cls |-> "TimeoutError", msg |-> ""])
    /\ vlmLog' = Answered(vlmLog, "timeout", NoResponse)
    /\ UNCHANGED << notRunner, config, chain, observed, evalLog, now, step_idx, elapsed, remaining, job, frame,
                    clips, vlm_resp, eval_idx >>

\* on_step(step_idx, step, frame) and what follows it (runner.py:121-130)
OnStep ==
    /\ pc = "on_step"
    /\ observed' = Append(observed,
                          Observation(step_idx, result, frame, Len(clipLog)))
    /\ \/ /\ DoneCheck(result, vlm_resp)
          /\ UNCHANGED << raised, hist >>
       \/ \E exc \in Exc :
             /\ Raise(exc)
             /\ Failed("observer", exc)
    /\ UNCHANGED << notRunner, config, chain, evalLog, now, step_idx, elapsed, remaining, job, frame,
                    clips, vlm_resp, eval_idx, vlmLog >>

\* ------------------------------------------------------- evaluation phase
\* What evalLog holds where an evaluator gave no score.
NoScore == [score |-> 0, passed |-> FALSE]

\* (variant: a score already stored under the name is kept)
StoreScoreFirstWins(res, name, score) ==
    [res EXCEPT !.eval_scores = @ @@ (name :> score)]

\* (variant: storing a score marks the run as done)
StoreScoreResetsReason(res, name, score) ==
    [res EXCEPT !.eval_scores = (name :> score) @@ @,
                !.termination_reason = "done"]

\* result.eval_scores[score.name] = {...} (runner.py:149-153): the entry of
\* that name is created or replaced.
StoreScore(res, name, score) ==
    [res EXCEPT !.eval_scores = (name :> score) @@ @]

\* (variant: a raising evaluator ends the evaluation phase)
AfterEvaluatorRaisedAbort(idx) == Len(evaluators) + 1

\* except Exception: logger.exception(...) (runner.py:154-155): the for loop
\* goes on with the next evaluator.
AfterEvaluatorRaised(idx) == idx + 1

\* One turn of the evaluator loop (runner.py:146-155): the evaluator returns
\* a score, which is stored under its name, or raises, which is logged.
Evaluate ==
    /\ pc = "evaluate"
    /\ eval_idx <= Len(evaluators)
    /\ \/ \E score \in EvalScore :
             /\ result' = StoreScore(result, evaluators[eval_idx], score)
             /\ evalLog' = Append(evalLog, [name |-> evaluators[eval_idx],
                                            outcome |-> "returned",
                                            score |-> score])
             /\ eval_idx' = eval_idx + 1
             /\ pc' = pc
             /\ raised' = raised
       \/ \E exc \in Exc :
             /\ evalLog' = Append(evalLog, [name |-> evaluators[eval_idx],
                                            outcome |-> "raised",
                                            score |-> NoScore])
             /\ IF exc.cls \in ExceptionSubclasses
                THEN /\ eval_idx' = AfterEvaluatorRaised(eval_idx)
                     /\ UNCHANGED << result, pc, raised >>
                ELSE /\ pc' = "raised" /\ raised' = exc
                     /\ UNCHANGED << result, eval_idx >>
    /\ UNCHANGED << notRunner, config, chain, observed, now, step_idx, elapsed, remaining, job, frame,
                    clips, vlm_resp, vlmLog, hist >>

\* return result (runner.py:157)
Return ==
    /\ pc = "evaluate"
    /\ eval_idx > Len(evaluators)
    /\ pc' = "returned"
    /\ UNCHANGED << notRunner, config, chain, observed, evalLog, now, step_idx, elapsed, remaining, job, frame,
                    clips, vlm_resp, result, eval_idx, raised, vlmLog, hist >>

Next ==
    \/ Tick
    \/ CreateClient
    \/ Simulate
    \/ Sleep
    \/ GetSimulateStatus
    \/ DownloadVideo
    \/ ExtractLastFrame
    \/ LoopHead
    \/ DecideReturns
    \/ DecideRaises
    \/ DecideTimeout
    \/ OnStep
    \/ Evaluate
    \/ Return

Spec == Init /\ [][Next]_vars

\* The runner's own steps and its collaborators' answers.
RunnerNext ==
    \/ CreateClient \/ Simulate \/ Sleep \/ GetSimulateStatus
    \/ DownloadVideo \/ ExtractLastFrame
    \/ LoopHead \/ DecideReturns \/ DecideRaises \/ DecideTimeout \/ OnStep
    \/ Evaluate \/ Return

\* The event loop keeps running the coroutine, every awaited call comes back
\* with some outcome, and time keeps passing.
FairSpec == Spec /\ WF_vars(Tick) /\ WF_vars(RunnerNext)

\* Runs of a runner built with either prompt builder.
ChainSpec == ChainInit /\ [][Next]_vars

TypeOK ==
    /\ pc \in {"start", "simulate", "sleep", "get_simulate_status", "download", "extract", "loop",
               "decide", "on_step", "evaluate", "returned", "raised"}
    /\ now \in 0..MaxClock
    /\ step_idx \in -1..MaxSteps
    /\ result.termination_reason \in TerminationReason
    /\ Len(result.steps) <= MaxSteps

\* ============================================================== session
\* An OdysseySession used the way its docstring shows (session.py:20-27):
\* async with OdysseySession(config) as session: start_stream, then
\* wait_for_frame and interact in turns, and end_stream at the end. Every
\* call of the client returns or raises, the host may cancel the task while
\* it is suspended, and the client delivers frames through _on_video_frame
\* at any time between start_stream and disconnect. A frame is modelled by
\* the number of commands the environment had applied when it produced it.

\* What a call of the client may end in: it returns, it raises, or the task
\* is cancelled while suspended in it.
ClientOutcomes == {"ok", "RuntimeError", "CancelledError"}

\* Where _on_video_frame is called from: a callback of the task's own event
\* loop, or another thread.
DeliveryContexts == {"loop", "thread"}

Called(method) == \E i \in 1..Len(calls) : calls[i] = method

\* An exception leaves the body of the async with block: __aexit__ runs
\* with it (session.py:43-49).
Unwind(exc) ==
    /\ spc' = "aexit"
    /\ exc_val' = exc

\* __aenter__ / connect (session.py:39-41, 53-59). If connect raises,
\* __aexit__ is not run.
Connect ==
    /\ spc = "aenter"
    /\ calls' = Append(calls, "connect")
    /\ \E o \in ClientOutcomes :
          IF o = "ok"
          THEN /\ _connected' = TRUE
               /\ shist' = [shist EXCEPT !.opened = TRUE]
               /\ spc' = "start_stream"
               /\ UNCHANGED exc_val
          ELSE /\ spc' = "exited"
               /\ exc_val' = o
               /\ UNCHANGED << _connected, shist >>
    /\ UNCHANGED << notSession, _frame, _frame_event, waiter, wait_left, sent,
                    applied, got >>

\* start_stream (session.py:68-80)
StartStream ==
    /\ spc = "start_stream"
    /\ calls' = Append(calls, "start_stream")
    /\ \E o \in ClientOutcomes :
          IF o = "ok"
          THEN spc' = "wait_for_frame" /\ UNCHANGED exc_val
          ELSE Unwind(o)
    /\ UNCHANGED << notSession, _frame, _frame_event, _connected, waiter,
                    wait_left, sent, applied, got, shist >>

\* What asyncio.Event.set() does to the future of a waiting task when the
\* event was not set before: called on the task's own loop it wakes the
\* task; called from another thread it races with the loop (asyncio.Event
\* is not thread-safe), and the task is woken or left suspended.
Wake(ctx, w) ==
    IF w # "pending" THEN {w}
    ELSE IF ctx = "loop" THEN {"done"}
    ELSE {"pending", "done"}

\* (variant: a frame already in the slot is kept)
StoreFrameFirstWins(slot, data) == IF slot = NoFrame THEN data ELSE slot

\* (variant: the frame is not stored, the slot stays as it was)
StoreFrameDropped(slot, data) == slot

\* self._frame = vf.data (session.py:102): the slot holds the new frame,
\* whatever it held before.
StoreFrame(slot, data) == data

\* _on_video_frame (session.py:101-103): store the frame, set the event.
\* Event.set() does nothing if the event is set already.
OnVideoFrame ==
    /\ Called("start_stream")
    /\ ~Called("disconnect")
    /\ _frame' = StoreFrame(_frame, applied)
    /\ _frame_event' = TRUE
    /\ \E ctx \in DeliveryContexts :
          \E w \in (IF _frame_event THEN {waiter} ELSE Wake(ctx, waiter)) :
             /\ waiter' = w
             /\ shist' = [shist EXCEPT
                    !.last = applied,
                    !.overwrote = @ \/ (/\ spc # "waiting"
                                        /\ _frame \notin {NoFrame, applied}),
                    !.lost = @ \/ (/\ spc = "waiting"
                                   /\ waiter = "pending"
                                   /\ wait_left # 0
                                   /\ w = "pending")]
    /\ UNCHANGED << notSession, _connected, spc, wait_left, sent, applied, got,
                    exc_val, calls >>

\* What the task does with a frame: another command, or the end of the
\* stream.
AfterFrame ==
    {"end_stream"} \cup (IF sent < MaxCommands THEN {"interact"} ELSE {})

\* timeout=None, the default of wait_for_frame (session.py:93).
NoTimeout == -1

\* The timeouts a caller gives to wait_for_frame.
Timeouts == {NoTimeout} \cup 0..MaxWait

\* (variant: a set event is looked at before the timeout)
WaitForEventFirst(timeout, isSet) ==
    IF isSet THEN "return"
    ELSE IF timeout = 0 THEN "TimeoutError"
    ELSE "suspend"

\* What asyncio.wait_for(self._frame_event.wait(), timeout) does when it is
\* called (session.py:95): with a timeout that is not positive it cancels
\* the wait before it has run and raises TimeoutError, also when the event
\* is set; otherwise it returns at once if the event is set and suspends
\* the task if it is not.
WaitFor(timeout, isSet) ==
    IF timeout # NoTimeout /\ timeout <= 0 THEN "TimeoutError"
    ELSE IF isSet THEN "return"
    ELSE "suspend"

\* wait_for_frame is called (session.py:93-97).
WaitForFrame ==
    /\ spc = "wait_for_frame"
    /\ \E timeout \in Timeouts :
          /\ wait_left' = timeout
          /\ CASE WaitFor(timeout, _frame_event) = "return" ->
                    /\ got' = _frame
                    /\ \E n \in AfterFrame : spc' = n
                    /\ UNCHANGED << waiter, exc_val >>
               [] WaitFor(timeout, _frame_event) = "suspend" ->
                    /\ waiter' = "pending"
                    /\ spc' = "waiting"
                    /\ UNCHANGED << got, exc_val >>
               [] WaitFor(timeout, _frame_event) = "TimeoutError" ->
                    /\ Unwind("TimeoutError")
                    /\ UNCHANGED << got, waiter >>
    /\ UNCHANGED << notSession, _frame, _frame_event, _connected, sent, applied,
                    calls, shist >>

\* Time passes while the task is suspended in wait_for_frame.
WaitTick ==
    /\ spc = "waiting"
    /\ wait_left > 0
    /\ wait_left' = wait_left - 1
    /\ UNCHANGED << notSession, _frame, _frame_event, _connected, spc, waiter,
                    sent, applied, got, exc_val, calls, shist >>

\* The suspended task is resumed and wait_for_frame returns self._frame
\* (session.py:95-97). A task whose wake-up was lost is resumed at the
\* latest when the timer of wait_for makes the loop run again.
WaitReturns ==
    /\ spc = "waiting"
    /\ \/ waiter = "done"
       \/ waiter = "pending" /\ _frame_event /\ wait_left = 0
    /\ got' = _frame
    /\ waiter' = "none"
    /\ \E n \in AfterFrame : spc' = n
    /\ UNCHANGED << notSession, _frame, _frame_event, _connected, wait_left,
                    sent, applied, exc_val, calls, shist >>

\* The timeout of wait_for expires before the task was woken
\* (session.py:95).
WaitTimeout ==
    /\ spc = "waiting"
    /\ waiter = "pending"
    /\ wait_left = 0
    /\ waiter' = "none"
    /\ Unwind("TimeoutError")
    /\ UNCHANGED << notSession, _frame, _frame_event, _connected, wait_left,
                    sent, applied, got, calls, shist >>

\* interact, up to the await (session.py:87-91): the event is cleared, then
\* the command is handed to the client.
Interact ==
    /\ spc = "interact"
    /\ _frame_event' = FALSE
    /\ calls' = Append(calls, "interact")
    /\ sent' = sent + 1
    /\ spc' = "sending"
    /\ UNCHANGED << notSession, _frame, _connected, waiter, wait_left, applied,
                    got, exc_val, shist >>

\* The environment applies a command it was sent.
EnvApply ==
    /\ applied < sent
    /\ applied' = applied + 1
    /\ UNCHANGED << notSession, _frame, _frame_event, _connected, spc, waiter,
                    wait_left, sent, got, exc_val, calls, shist >>

\* await self._client.interact(prompt) comes back (session.py:91): it
\* returns once the command is applied, or it raises.
InteractReturns ==
    /\ spc = "sending"
    /\ \/ /\ applied = sent
          /\ spc' = "wait_for_frame"
          /\ UNCHANGED exc_val
       \/ Unwind("RuntimeError")
    /\ UNCHANGED << notSession, _frame, _frame_event, _connected, waiter,
                    wait_left, sent, applied, got, calls, shist >>

\* The host cancels the task while it is suspended in wait_for_frame or in
\* interact: CancelledError is raised at the await.
Cancel ==
    /\ spc \in {"waiting", "sending"}
    /\ waiter' = "none"
    /\ Unwind("CancelledError")
    /\ UNCHANGED << notSession, _frame, _frame_event, _connected, wait_left,
                    sent, applied, got, calls, shist >>

\* end_stream, the last statement of the body (session.py:82-83); after it
\* __aexit__ runs, with the exception if there is one.
EndStream ==
    /\ spc = "end_stream"
    /\ calls' = Append(calls, "end_stream")
    /\ \E o \in ClientOutcomes :
          IF o = "ok"
          THEN spc' = "aexit" /\ UNCHANGED exc_val
          ELSE Unwind(o)
    /\ UNCHANGED << notSession, _frame, _frame_event, _connected, waiter,
                    wait_left, sent, applied, got, shist >>

\* __aexit__ / disconnect (session.py:43-49, 61-64): it returns None, so an
\* exception of the body goes on to the caller.
Disconnect ==
    /\ spc = "aexit"
    /\ spc' = "exited"
    /\ IF _connected
       THEN /\ calls' = Append(calls, "disconnect")
            /\ \E o \in ClientOutcomes :
                  IF o = "ok"
                  THEN _connected' = FALSE /\ UNCHANGED exc_val
                  ELSE exc_val' = o /\ UNCHANGED _connected
       ELSE UNCHANGED << _connected, exc_val, calls >>
    /\ UNCHANGED << notSession, _frame, _frame_event, waiter, wait_left, sent,
                    applied, got, shist >>

SessionNext ==
    \/ Connect
    \/ StartStream
    \/ OnVideoFrame
    \/ WaitForFrame
    \/ WaitTick
    \/ WaitReturns
    \/ WaitTimeout
    \/ Interact
    \/ EnvApply
    \/ InteractReturns
    \/ Cancel
    \/ EndStream
    \/ Disconnect

\* A session on its own: no run of the runner is in progress.
SessionOnly ==
    /\ Init
    /\ max_steps = 0
    /\ timeout_s = 0
    /\ ~on_step
    /\ evaluators = << >>

SessionSpec == SessionOnly /\ [][SessionNext]_vars

\* ========================================================= oracle backend
\* GeminiRoboticsBackend as the CLI uses it (cli.py:110-131): one backend
\* and one runner are created, and runner.run is awaited for one scenario
\* after the other. Of a run only its calls of decide matter here: step
\* indices 0, 1, ... until the answer is done, the step budget is used up
\* or the run ends for another reason (runner.py:93-143). Neither run nor
\* _run_command calls the backend's close (gemini.py:152-153), the only
\* place where the history is cleared. A turn is modelled by its role, the
\* scenario and step it belongs to, and what the model answered.

\* a function call other than done, the done call, or text (gemini.py:127-139)
ModelAnswers == {"move_forward", "done", "text"}

\* user_content of a decide call (gemini.py:96-104)
UserContent == [role |-> "user", scenario |-> scenario_no, step |-> step_index,
                answer |-> NULL]

\* candidate.content of the answer (gemini.py:124-125)
ModelContent(answer) ==
    [role |-> "model", scenario |-> scenario_no, step |-> step_index,
     answer |-> answer]

\* decide is called and the model answers (gemini.py:85-150): the request
\* holds the whole history and the new turn, both turns are appended, and
\* the run goes on unless the answer is done.
BackendDecide ==
    /\ bpc = "run"
    /\ step_index < MaxSteps
    /\ contents' = Append(_conversation_history, UserContent)
    /\ \E answer \in ModelAnswers :
          /\ _conversation_history' =
                _conversation_history \o << UserContent, ModelContent(answer) >>
          /\ IF answer = "done"
             THEN bpc' = "between" /\ UNCHANGED step_index
             ELSE bpc' = bpc /\ step_index' = step_index + 1
    /\ UNCHANGED << notBackend, scenario_no >>

\* decide is called and generate_content or the parsing of its response
\* raises (gemini.py:116-125): nothing is appended, and the run ends with
\* ERROR (runner.py:140-143).
BackendDecideRaises ==
    /\ bpc = "run"
    /\ step_index < MaxSteps
    /\ contents' = Append(_conversation_history, UserContent)
    /\ bpc' = "between"
    /\ UNCHANGED << notBackend, _conversation_history, scenario_no, step_index >>

\* The run ends without a further call of the oracle: step budget, time
\* budget or a failure of the environment (runner.py:93-98, 135-143).
RunEnds ==
    /\ bpc = "run"
    /\ bpc' = "between"
    /\ UNCHANGED << notBackend, _conversation_history, contents, scenario_no,
                    step_index >>

\* for scenario in scenarios: ... result = await runner.run(scenario, ...)
\* (cli.py:117-129): the next scenario is run with the same backend.
NextScenario ==
    /\ bpc = "between"
    /\ IF scenario_no < MaxScenarios
       THEN /\ scenario_no' = scenario_no + 1
            /\ step_index' = 0
            /\ bpc' = "run"
       ELSE /\ bpc' = "finished"
            /\ UNCHANGED << scenario_no, step_index >>
    /\ UNCHANGED << notBackend, _conversation_history, contents >>

BackendNext ==
    \/ BackendDecide
    \/ BackendDecideRaises
    \/ RunEnds
    \/ NextScenario

\* The backend and the CLI loop on their own.
BackendOnly == SessionOnly

BackendSpec == BackendOnly /\ [][BackendNext]_vars

\* ============================================================ evaluators
\* ExactPathEvaluator and CompositeEvaluator applied to one scenario and
\* one result: evaluate is called by the runner, which then stores the
\* score in the result (runner.py:146-153), or by any other caller, which
\* does not.
IsOne(r) == r.num = r.den

\* (variant: only a result with too few actions is a length mismatch)
LengthMismatchIfShorter(expected, actual) == Len(actual) < Len(expected)

\* if len(expected) != len(actual) (exact.py:23)
LengthMismatch(expected, actual) == Len(expected) # Len(actual)

\* (variant: the names alone decide)
PositionMatchesNameOnly(check, exp, act) == exp.name = act.name

\* name_match and param_match (exact.py:38-40)
PositionMatches(check, exp, act) ==
    /\ exp.name = act.name
    /\ (~check) \/ exp.parameters = act.parameters

\* The positions zip(expected, actual) yields (exact.py:37), from 1.
Zipped(expected, actual) ==
    1..(IF Len(expected) <= Len(actual) THEN Len(expected) ELSE Len(actual))

\* matches (exact.py:35-41)
Matches(check, expected, actual) ==
    Cardinality({ i \in Zipped(expected, actual) :
                    PositionMatches(check, expected[i], actual[i]) })

RECURSIVE MismatchesUpTo(_, _, _, _)
\* mismatches (exact.py:36-47), for the first n positions
MismatchesUpTo(check, expected, actual, n) ==
    IF n = 0 THEN << >>
    ELSE LET init == MismatchesUpTo(check, expected, actual, n - 1)
         IN  IF PositionMatches(check, expected[n], actual[n])
             THEN init
             ELSE Append(init, [step |-> n - 1,
                                expected |-> expected[n],
                                actual |-> actual[n]])

\* (variant: a result that already holds a score of this evaluator is
\* given the score zero)
ExactPathEvaluateOnce(check, expected, res) ==
    LET actual == Actions(res.steps) IN
    IF LengthMismatch(expected, actual) \/ "exact_path" \in DOMAIN res.eval_scores
    THEN [name |-> "exact_path", score |-> Ratio(0, 1), passed |-> FALSE,
          details |-> [reason |-> "length_mismatch",
                       expected_count |-> Len(expected),
                       actual_count |-> Len(actual)]]
    ELSE LET score == IF expected # << >>
                      THEN Ratio(Matches(check, expected, actual), Len(expected))
                      ELSE Ratio(1, 1)
         IN  [name |-> "exact_path", score |-> score, passed |-> IsOne(score),
              details |-> [mismatches |->
                  MismatchesUpTo(check, expected, actual,
                                 Cardinality(Zipped(expected, actual)))]]

\* ExactPathEvaluator.evaluate (exact.py:19-55)
ExactPathEvaluate(check, expected, res) ==
    LET actual == Actions(res.steps) IN
    IF LengthMismatch(expected, actual)
    THEN [name |-> "exact_path", score |-> Ratio(0, 1), passed |-> FALSE,
          details |-> [reason |-> "length_mismatch",
                       expected_count |-> Len(expected),
                       actual_count |-> Len(actual)]]
    ELSE LET score == IF expected # << >>
                      THEN Ratio(Matches(check, expected, actual), Len(expected))
                      ELSE Ratio(1, 1)
         IN  [name |-> "exact_path", score |-> score, passed |-> IsOne(score),
              details |-> [mismatches |->
                  MismatchesUpTo(check, expected, actual,
                                 Cardinality(Zipped(expected, actual)))]]

RatioAdd(a, b) == Ratio(a.num * b.den + b.num * a.den, a.den * b.den)
RatioGeq(a, b) == a.num * b.den >= b.num * a.den

RECURSIVE SumScores(_)
\* sum(s.score for s in sub_scores) (composite.py:42)
SumScores(ss) ==
    IF ss = << >> THEN Ratio(0, 1)
    ELSE RatioAdd(SumScores(SubSeq(ss, 1, Len(ss) - 1)),
                  ss[Len(ss)].score)

\* avg_score = sum(s.score for s in sub_scores) / len(sub_scores)
\* (composite.py:42)
AvgScore(ss) ==
    LET total == SumScores(ss)
    IN  Ratio(total.num, total.den * Len(ss))

\* (variant: a mean equal to the threshold does not pass)
PassedUnderStrictThreshold(mode, ss, threshold) ==
    CASE mode = "and" -> \A i \in 1..Len(ss) : ss[i].passed
      [] mode = "or" -> \E i \in 1..Len(ss) : ss[i].passed
      [] OTHER -> ~RatioGeq(threshold, AvgScore(ss))

\* passed by mode (composite.py:44-49)
PassedUnder(mode, ss, threshold) ==
    CASE mode = "and" -> \A i \in 1..Len(ss) : ss[i].passed
      [] mode = "or" -> \E i \in 1..Len(ss) : ss[i].passed
      [] OTHER -> RatioGeq(AvgScore(ss), threshold)

\* What evaluate returns once sub_scores is complete (composite.py:39-64)
Combine(ss, mode, threshold) ==
    IF ss = << >>
    THEN [name |-> "composite", score |-> Ratio(1, 1), passed |-> TRUE,
          details |-> [sub_scores |-> << >>]]
    ELSE [name |-> "composite",
          score |-> AvgScore(ss),
          passed |-> PassedUnder(mode, ss, threshold),
          details |-> [mode |-> mode,
                       sub_scores |-> [i \in 1..Len(ss) |->
                           [name |-> ss[i].name,
                            score |-> ss[i].score,
                            passed |-> ss[i].passed]]]]

\* CompositeEvaluator.evaluate (composite.py:34-64) over exact path
\* evaluators and with the default threshold
CompositeEvaluate(subs, mode, expected, res) ==
    Combine([i \in 1..Len(subs) |-> ExactPathEvaluate(subs[i], expected, res)],
            mode, DefaultThreshold)

\* await ExactPathEvaluator(...).evaluate(scenario, result): the score is
\* returned, nothing is assigned (exact.py:19-55).
ExactEvaluate ==
    /\ Len(scores) < MaxCalls
    /\ scores' = Append(scores,
                        ExactPathEvaluate(check_parameters, expected_actions, eresult))
    /\ merged' = FALSE
    /\ UNCHANGED << notEvaluation, check_parameters, _evaluators, _mode,
                    expected_actions, eresult >>

\* await CompositeEvaluator(...).evaluate(scenario, result): the score is
\* returned, nothing is assigned (composite.py:34-64).
CompositeEvaluateCall ==
    /\ Len(scores) < MaxCalls
    /\ scores' = Append(scores,
                        CompositeEvaluate(_evaluators, _mode, expected_actions, eresult))
    /\ merged' = FALSE
    /\ UNCHANGED << notEvaluation, check_parameters, _evaluators, _mode,
                    expected_actions, eresult >>

\* result.eval_scores[score.name] = {"score": ..., "passed": ...,
\* "details": ...} (runner.py:149-153), for the score just returned to the
\* runner.
MergeScore ==
    /\ scores # << >>
    /\ ~merged
    /\ LET score == scores[Len(scores)] IN
          eresult' = StoreScore(eresult, score.name,
                                [score |-> score.score, passed |-> score.passed,
                                 details |-> score.details])
    /\ merged' = TRUE
    /\ UNCHANGED << notEvaluation, check_parameters, _evaluators, _mode,
                    expected_actions, scores >>

EvalNext ==
    \/ ExactEvaluate
    \/ CompositeEvaluateCall
    \/ MergeScore

\* The evaluators on their own: no run, no session and no CLI loop.
EvalOnly ==
    /\ SessionInit
    /\ BackendInit
    /\ RunnerInit
    /\ max_steps = 0
    /\ timeout_s = 0
    /\ ~on_step
    /\ evaluators = << >>
    /\ prompt_builder = NULL
    /\ EvaluationInit
    /\ NoComposition
    /\ ReportInit

EvalSpec == EvalOnly /\ [][EvalNext]_vars

\* ================================================== composite evaluator
\* One call of CompositeEvaluator.evaluate (composite.py:34-64) step by
\* step: the sub-evaluators are awaited one after the other, each returning
\* a score of its own or raising, and the scores are combined at the end.

\* (variant: the loop ends as soon as the mode's verdict is settled)
LoopDoneWhenDecided(mode, subs, n) ==
    \/ Len(subs) = n
    \/ mode = "and" /\ \E i \in 1..Len(subs) : ~subs[i].passed
    \/ mode = "or" /\ \E i \in 1..Len(subs) : subs[i].passed

\* for ev in self._evaluators: every sub-evaluator has been awaited
\* (composite.py:36)
LoopDone(mode, subs, n) == Len(subs) = n

\* sub_scores.append(await ev.evaluate(scenario, result)) (composite.py:37):
\* the next sub-evaluator returns its score, or raises, and the exception
\* leaves evaluate.
SubEvaluate ==
    /\ cpc = "loop"
    /\ ~LoopDone(combine_mode, sub_scores, Len(sub_evaluators))
    /\ LET i == Len(sub_scores) + 1 IN
          /\ invocations' = Append(invocations, i)
          /\ \/ \E score \in SubScoreValues, passed \in BOOLEAN :
                   /\ sub_scores' = Append(sub_scores,
                                           [name |-> sub_evaluators[i],
                                            score |-> score,
                                            passed |-> passed])
                   /\ cpc' = cpc
             \/ /\ cpc' = "raised"
                /\ UNCHANGED sub_scores
    /\ UNCHANGED << notComposition, sub_evaluators, combine_mode, _threshold,
                    composite_score >>

\* The loop is over and the score is built and returned (composite.py:39-64).
CompositeReturn ==
    /\ cpc = "loop"
    /\ LoopDone(combine_mode, sub_scores, Len(sub_evaluators))
    /\ composite_score' = Combine(sub_scores, combine_mode, _threshold)
    /\ cpc' = "returned"
    /\ UNCHANGED << notComposition, sub_evaluators, combine_mode, _threshold,
                    sub_scores, invocations >>

CompositeNext ==
    \/ SubEvaluate
    \/ CompositeReturn

\* A composite evaluator on its own.
CompositeOnly ==
    /\ SessionInit
    /\ BackendInit
    /\ NoEvaluation
    /\ RunnerInit
    /\ max_steps = 0
    /\ timeout_s = 0
    /\ ~on_step
    /\ evaluators = << >>
    /\ prompt_builder = NULL
    /\ CompositionInit
    /\ ReportInit

CompositeSpec == CompositeOnly /\ [][CompositeNext]_vars

\* ===================================================== result and report
\* ScenarioResult.passed (models.py:84-91) and StructuredReport
\* (report.py:11-62): results are added to a report, and the report is read
\* through all_passed and to_dict.

\* (variant: a score without a passed entry counts as passed)
ScorePassedByDefault(score) ==
    IF "passed" \in DOMAIN score THEN score.passed ELSE TRUE

\* score.get("passed", False) (models.py:89)
ScorePassed(score) ==
    IF "passed" \in DOMAIN score THEN score.passed ELSE FALSE

\* ScenarioResult.passed (models.py:84-91)
Passed(res) ==
    IF DOMAIN res.eval_scores = {}
    THEN res.termination_reason = "done"
    ELSE \A name \in DOMAIN res.eval_scores : ScorePassed(res.eval_scores[name])

\* The eval_scores of the results given to a report: none, one entry that
\* passed, one that did not, one without a passed entry, and two entries of
\* which one passed.
ReportScores ==
    { << >>,
      "exact_path" :> [score |-> 1, passed |-> TRUE],
      "exact_path" :> [score |-> 0, passed |-> FALSE],
      "exact_path" :> [score |-> 1],
      ("exact_path" :> [score |-> 1, passed |-> TRUE])
         @@ ("composite" :> [score |-> 0, passed |-> FALSE]) }

\* The results given to a report: runs that ended with DONE after one step,
\* or with TIMEOUT or ERROR before the first.
ReportResults ==
    { [scenario |-> [name |-> "scenario"],
       steps |-> IF reason = "done"
                 THEN << [step_index |-> 0, action |-> "done",
                          latency_ms |-> 1, cost_usd |-> 2] >>
                 ELSE << >>,
       termination_reason |-> reason,
       error |-> IF reason = "error" THEN "boom" ELSE NULL,
       eval_scores |-> es,
       total_latency_ms |-> IF reason = "done" THEN 1 ELSE 0,
       total_cost_usd |-> IF reason = "done" THEN 2 ELSE 0] :
      reason \in {"done", "timeout", "error"}, es \in ReportScores }

\* (variant: the newest result is put first)
AddResultFirst(results, res) == << res >> \o results

\* self._results.append(result) (report.py:17-18)
AddResult(results, res) == Append(results, res)

\* StructuredReport.all_passed (report.py:20-22)
AllPassed(results) == \A i \in 1..Len(results) : Passed(results[i])

\* StructuredReport.to_dict (report.py:49-62)
ToDict(results) ==
    [i \in 1..Len(results) |->
        [name |-> results[i].scenario.name,
         passed |-> Passed(results[i]),
         termination_reason |-> results[i].termination_reason,
         steps |-> Len(results[i].steps),
         total_latency_ms |-> results[i].total_latency_ms,
         total_cost_usd |-> results[i].total_cost_usd,
         eval_scores |-> results[i].eval_scores,
         error |-> results[i].error]]

\* report.add(result) (report.py:17-18)
Add ==
    /\ Len(_results) < MaxResults
    /\ \E res \in ReportResults : _results' = AddResult(_results, res)
    /\ UNCHANGED << notReporting, report >>

\* report.all_passed and report.to_dict() are read (report.py:20-22, 49-62).
ReadReport ==
    /\ report' = [all_passed |-> AllPassed(_results),
                  to_dict |-> ToDict(_results),
                  read |-> TRUE]
    /\ UNCHANGED << notReporting, _results >>

ReportNext ==
    \/ Add
    \/ ReadReport

\* A report on its own.
ReportOnly == SessionOnly

ReportSpec == ReportOnly /\ [][ReportNext]_vars

\* ================================================================ claims
Running == pc \notin {"returned", "raised"}
Returned == pc = "returned"
\* The control loop is over: the evaluation phase or the return is reached.
LoopOver == pc \in {"evaluate", "returned"}

\* C1: in every state of a run, and in the returned result, the number of
\* recorded steps is at most scenario.max_steps.
C1_StepsWithinMaxSteps == Len(result.steps) <= max_steps

\* C1 witness: a run returned with the step budget used up entirely.
C1_Witness ==
    /\ Returned
    /\ max_steps = MaxSteps
    /\ Len(result.steps) = max_steps

\* C2: run always terminates (in particular when the environment never
\* finishes producing an observation).
C2_RunTerminates == <>(pc \in {"returned", "raised"})

C4_TotalsAreSums ==
    /\ result.total_latency_ms = SumLatency(result.steps)
    /\ result.total_cost_usd = SumCost(result.steps)

\* C4 witness: the observer is being called for the second step, with
\* non-zero totals.
C4_Witness ==
    /\ pc = "on_step"
    /\ Len(result.steps) = 2
    /\ result.total_latency_ms > 0
    /\ result.total_cost_usd > 0

\* The most recent call of the oracle.
LastCall == vlmLog[Len(vlmLog)]
\* The oracle has answered done=true.
DoneAnswered ==
    /\ vlmLog # << >>
    /\ LastCall.outcome = "returned"
    /\ LastCall.resp.done

\* What C5 promises once the oracle has answered done=true at step k: k+1
\* steps, the last one holding the done answer's action, no oracle call and
\* no environment command after the answer, and DONE when the loop is over.
DoneOutcome ==
    LET k == LastCall.step_index IN
    /\ Len(result.steps) = k + 1
    /\ result.steps[k + 1].action = LastCall.resp.action
    /\ Len(vlmLog) = k + 1
    /\ clips = k + 1
    /\ pc \in {"on_step", "evaluate", "returned"}
    /\ LoopOver => result.termination_reason = "done"

\* C5 (as stated): once the oracle has answered done=true at step k (which
\* it can only do with the environment having succeeded and the budget not
\* exhausted before), the run ends with DONE and exactly k+1 steps, the last
\* being the done action, and nothing further is asked of oracle or
\* environment.
C5_DoneEndsRun == DoneAnswered => DoneOutcome

\* C5 (amended): the same, provided the per-step observer does not raise
\* when it is called for the done step.
C5_DoneEndsRunUnlessObserverRaises ==
    (DoneAnswered /\ hist.failed # "observer") => DoneOutcome

\* C5 witness: a run with an observer returned DONE after the oracle said
\* done at step 1.
C5_Witness ==
    /\ Returned
    /\ on_step
    /\ DoneAnswered
    /\ LastCall.step_index = 1
    /\ result.termination_reason = "done"

\* Every oracle call so far was answered, and with done=false.
NeverDone ==
    \A i \in 1..Len(vlmLog) :
        vlmLog[i].outcome = "returned" /\ ~vlmLog[i].resp.done

\* C6 (as stated): if the oracle never answers done, the environment
\* operations all succeed and the budget is not exhausted, the returned
\* result has exactly max_steps steps and reason MAX_STEPS.
C6_MaxStepsReached ==
    (/\ Returned
     /\ NeverDone
     /\ hist.failed # "env"
     /\ hist.budget_exit = -1 /\ hist.failed # "wait_for")
    => /\ Len(result.steps) = max_steps
       /\ result.termination_reason = "max_steps"

\* C6 (amended): the same, provided moreover that the per-step observer
\* never raises.
C6_MaxStepsReachedUnlessObserverRaises ==
    (/\ Returned
     /\ NeverDone
     /\ hist.failed = NULL
     /\ hist.budget_exit = -1)
    => /\ Len(result.steps) = max_steps
       /\ result.termination_reason = "max_steps"

\* C6 witness: a run with the largest step budget returned MAX_STEPS after
\* the oracle was asked max_steps times.
C6_Witness ==
    /\ Returned
    /\ max_steps = MaxSteps
    /\ Len(vlmLog) = max_steps
    /\ hist.failed = NULL
    /\ result.termination_reason = "max_steps"

\* C7 (as stated): with max_steps = 0 the run ends with MAX_STEPS, zero steps
\* and no oracle call, whatever the budget and the environment do.
C7_ZeroStepsIsMaxSteps ==
    max_steps = 0 =>
        /\ result.steps = << >>
        /\ vlmLog = << >>
        /\ LoopOver => result.termination_reason = "max_steps"

\* C7 (amended): with max_steps = 0 no step is recorded and the oracle is
\* never called, whatever the budget and the environment do; the reason is
\* MAX_STEPS, whatever the budget, when the first clip was produced, and it
\* is ERROR, or TIMEOUT for a timeout error, when producing it failed.
C7_ZeroStepsAfterFirstClip ==
    max_steps = 0 =>
        /\ result.steps = << >>
        /\ vlmLog = << >>
        /\ LoopOver =>
              result.termination_reason =
                 CASE hist.exc = NULL -> "max_steps"
                   [] hist.exc = "TimeoutError" -> "timeout"
                   [] OTHER -> "error"

\* C7 witness: max_steps = 0 with no time budget at all, the clock past it,
\* the first clip produced, and MAX_STEPS returned.
C7_Witness ==
    /\ Returned
    /\ max_steps = 0
    /\ timeout_s = 0
    /\ now > 0
    /\ clips = 1
    /\ result.termination_reason = "max_steps"

\* C8: an iteration starts by computing remaining = timeout_s - elapsed; if
\* remaining <= 0 the loop ends with TIMEOUT without calling the oracle, and
\* otherwise the oracle is called; after such an exit at step i the oracle
\* has been called for the steps before i only, and the reason stays TIMEOUT.
C8_BudgetCheckEndsLoop ==
    /\ [][ (pc = "loop" /\ pc' # "loop" /\ step_idx < max_steps) =>
             /\ elapsed' = now
             /\ remaining' = timeout_s - elapsed'
             /\ IF remaining' <= 0
                THEN /\ result'.termination_reason = "timeout"
                     /\ pc' = "evaluate"
                     /\ vlmLog' = vlmLog
                ELSE /\ pc' = "decide"
                     /\ Len(vlmLog') = Len(vlmLog) + 1 ]_vars
    /\ [](hist.budget_exit # -1 =>
             /\ LoopOver
             /\ result.termination_reason = "timeout"
             /\ Len(vlmLog) = hist.budget_exit
             /\ \A i \in 1..Len(vlmLog) : vlmLog[i].step_index < hist.budget_exit)

\* C8 witness: the budget check ended the loop at step 1, after one recorded
\* step, and the run returned.
C8_Witness ==
    /\ Returned
    /\ hist.budget_exit = 1
    /\ Len(result.steps) = 1
    /\ result.termination_reason = "timeout"

\* C9 (as stated): a returned result with reason TIMEOUT has fewer steps
\* than max_steps.
C9_TimeoutHasFewerSteps ==
    (Returned /\ result.termination_reason = "timeout")
    => Len(result.steps) < max_steps

\* C9 (amended): a result whose reason is TIMEOUT because the budget check
\* found no time left or because the oracle call ended in a timeout has
\* fewer steps than max_steps (a timeout error raised by an environment
\* operation or by the observer is excluded).
C9_BudgetTimeoutHasFewerSteps ==
    (/\ LoopOver
     /\ result.termination_reason = "timeout"
     /\ hist.failed \notin {"env", "observer"})
    => Len(result.steps) < max_steps

\* C9 witness: the oracle call of the last allowed step timed out and the
\* run returned TIMEOUT with max_steps - 1 steps.
C9_Witness ==
    /\ Returned
    /\ max_steps = MaxSteps
    /\ hist.failed = "wait_for"
    /\ result.termination_reason = "timeout"
    /\ Len(result.steps) = max_steps - 1

RECURSIVE LogLatency(_)
\* Sum of the latencies the oracle reported in its answers.
LogLatency(log) ==
    IF log = << >> THEN 0
    ELSE LogLatency(SubSeq(log, 1, Len(log) - 1)) + log[Len(log)].resp.latency_ms

RECURSIVE LogCost(_)
\* Sum of the costs the oracle reported in its answers.
LogCost(log) ==
    IF log = << >> THEN 0
    ELSE LogCost(SubSeq(log, 1, Len(log) - 1)) + log[Len(log)].resp.cost_usd

\* C10: when the oracle call for step i is given up after the remaining
\* budget has passed, the reason is TIMEOUT with no error message, no step
\* is recorded for step i, and the totals are those of the earlier answers.
C10_OracleTimeoutIsTimeout ==
    (vlmLog # << >> /\ LastCall.outcome = "timeout") =>
        /\ now >= elapsed + remaining
        /\ LoopOver
        /\ result.termination_reason = "timeout"
        /\ result.error = NULL
        /\ Len(result.steps) = LastCall.step_index
        /\ result.total_latency_ms = LogLatency(vlmLog)
        /\ result.total_cost_usd = LogCost(vlmLog)

\* C10 witness: the oracle call for step 1 timed out after step 0 was
\* recorded with a cost, and the run returned.
C10_Witness ==
    /\ Returned
    /\ vlmLog # << >>
    /\ LastCall.outcome = "timeout"
    /\ LastCall.step_index = 1
    /\ result.total_cost_usd > 0

\* The environment failed before the first observation was produced.
EnvFailedToStart == hist.failed = "env" /\ frame = 0

\* C11 (as stated): if the environment fails to start, whatever the failure,
\* the run ends with ERROR, a non-empty error message and no recorded step,
\* the oracle is never called, and for a FAILED job the message is the
\* job's error message.
C11_EnvStartFailureIsError ==
    EnvFailedToStart =>
        /\ LoopOver
        /\ result.termination_reason = "error"
        /\ result.error \notin {NULL, ""}
        /\ result.steps = << >>
        /\ vlmLog = << >>
        /\ job.status = "failed" => result.error = job.error_message

\* C11 (amended): if the environment fails to start, the run ends with no
\* recorded step and the oracle is never called; a timeout error gives
\* TIMEOUT without an error message, any other failure gives ERROR with the
\* failure's message (empty if the exception carries none), and for a FAILED
\* job the message is the job's error message or, if it has none,
\* "Simulation job failed".
C11_EnvStartFailureEndsRun ==
    EnvFailedToStart =>
        /\ LoopOver
        /\ result.steps = << >>
        /\ vlmLog = << >>
        /\ IF hist.exc = "TimeoutError"
           THEN /\ result.termination_reason = "timeout"
                /\ result.error = NULL
           ELSE /\ result.termination_reason = "error"
                /\ result.error = hist.msg
                /\ job.status = "failed" =>
                      result.error =
                          IF job.error_message \in {NULL, ""}
                          THEN "Simulation job failed"
                          ELSE job.error_message

\* C11 witness: the first simulation job FAILED with a message and the run
\* returned ERROR with that message.
C11_Witness ==
    /\ Returned
    /\ EnvFailedToStart
    /\ job.status = "failed"
    /\ result.termination_reason = "error"
    /\ result.error = "GPU out of memory"

RECURSIVE LogSteps(_)
\* The steps that the oracle's answers amount to, in call order.
LogSteps(log) ==
    IF log = << >> THEN << >>
    ELSE LET init == LogSteps(SubSeq(log, 1, Len(log) - 1))
             last == log[Len(log)]
         IN  IF last.outcome = "returned"
             THEN Append(init, StepResult(last.step_index, last.resp))
             ELSE init

\* The oracle is called at most once per step index, and a clip is asked of
\* the environment once at the start and once after each answer that was
\* not done, never again.
NoRetry ==
    /\ \A i, j \in 1..Len(vlmLog) :
          i < j => vlmLog[i].step_index < vlmLog[j].step_index
    /\ clips <= 1 + Cardinality({ i \in 1..Len(vlmLog) :
                                    /\ vlmLog[i].outcome = "returned"
                                    /\ ~vlmLog[i].resp.done })

\* An oracle call raised or an environment operation failed.
CallFailed == hist.failed \in {"env", "oracle"}

\* C12 (as stated): nothing is retried, and a raised oracle call or a failed
\* environment operation ends the run with ERROR and its message, the steps
\* recorded before the failure being kept.
C12_NoRetryFailureIsError ==
    /\ NoRetry
    /\ CallFailed =>
          /\ LoopOver
          /\ result.termination_reason = "error"
          /\ result.error = hist.msg
          /\ result.steps = LogSteps(vlmLog)

\* C12 (amended): nothing is retried, and a raised oracle call or a failed
\* environment operation ends the run, keeping the steps recorded before
\* the failure: with TIMEOUT and no message if what was raised is a timeout
\* error, with ERROR and its message otherwise.
C12_NoRetryFailureEndsRun ==
    /\ NoRetry
    /\ CallFailed =>
          /\ LoopOver
          /\ result.steps = LogSteps(vlmLog)
          /\ IF hist.exc = "TimeoutError"
             THEN /\ result.termination_reason = "timeout"
                  /\ result.error = NULL
             ELSE /\ result.termination_reason = "error"
                  /\ result.error = hist.msg

\* C12 witness: the oracle raised at step 1, after step 0 was recorded, and
\* the run returned ERROR with the message and that one step.
C12_Witness ==
    /\ Returned
    /\ hist.failed = "oracle"
    /\ hist.exc = "RuntimeError"
    /\ LastCall.step_index = 1
    /\ result.termination_reason = "error"
    /\ result.error = "boom"
    /\ Len(result.steps) = 1

\* The done answer decides how the run ends: the step is with the observer
\* or the loop is over, and once it is over the reason is DONE.
DoneWins ==
    /\ pc \in {"on_step", "evaluate", "returned"}
    /\ LoopOver => result.termination_reason = "done"

\* C13 (as stated): whenever the oracle answers done=true to a call that was
\* started, the run ends with DONE, also when the budget has run out by the
\* time the answer is processed.
C13_DoneWinsOverBudget == DoneAnswered => DoneWins

\* C13 (amended): the same, provided the per-step observer does not raise
\* when it is called for the done step.
C13_DoneWinsOverBudgetUnlessObserverRaises ==
    (DoneAnswered /\ hist.failed # "observer") => DoneWins

\* C13 witness: a done answer was taken after the deadline of its call had
\* passed, and the run returned DONE with the budget used up.
C13_Witness ==
    /\ Returned
    /\ DoneAnswered
    /\ hist.late_done
    /\ timeout_s > 0
    /\ now >= timeout_s
    /\ result.termination_reason = "done"

\* C14: within one run termination_reason is set at most once, on the step
\* that ends the control loop; once the loop is over nothing changes it,
\* the evaluation phase in particular.
C14_ReasonSetOnce ==
    [][/\ result'.termination_reason # result.termination_reason
            => (~LoopOver /\ LoopOver')
       /\ LoopOver
            => /\ LoopOver'
               /\ result'.termination_reason = result.termination_reason
               /\ result'.error = result.error]_vars

\* C14 witness: a run that ended with MAX_STEPS returned after two
\* evaluators, one of which raised, had their turn.
C14_Witness ==
    /\ Returned
    /\ result.termination_reason = "max_steps"
    /\ Len(evalLog) = 2
    /\ evalLog[1].outcome = "raised"
    /\ evalLog[2].outcome = "returned"

\* C15: while the control loop is running and no termination trigger has
\* fired, termination_reason is a placeholder, none of DONE, MAX_STEPS,
\* TIMEOUT and ERROR.
C15_PlaceholderWhileRunning ==
    (~LoopOver /\ pc # "raised") =>
        result.termination_reason \notin {"done", "max_steps", "timeout", "error"}

\* The evaluators called so far are the first ones configured, each called
\* once, in configured order.
EvaluatorsInOrder ==
    /\ Len(evalLog) <= Len(evaluators)
    /\ \A i \in 1..Len(evalLog) : evalLog[i].name = evaluators[i]

\* C16: an evaluator that raises is skipped without effect on the rest:
\* every configured evaluator has had its turn when the run returns, a
\* returned score is stored under the evaluator's name and a raise stores
\* nothing, and termination_reason, error, steps and totals stay what the
\* control loop produced.
C16_RaisingEvaluatorIsSkipped ==
    /\ [](Returned => (EvaluatorsInOrder /\ Len(evalLog) = Len(evaluators)))
    /\ [][pc = "evaluate" =>
            /\ result'.termination_reason = result.termination_reason
            /\ result'.error = result.error
            /\ result'.steps = result.steps
            /\ result'.total_latency_ms = result.total_latency_ms
            /\ result'.total_cost_usd = result.total_cost_usd
            /\ Len(evalLog') = Len(evalLog) + 1 =>
                  LET call == evalLog'[Len(evalLog')] IN
                  IF call.outcome = "returned"
                  THEN result'.eval_scores =
                          (call.name :> call.score) @@ result.eval_scores
                  ELSE result'.eval_scores = result.eval_scores]_vars

\* C16 witness: of two evaluators of different names the first raised and
\* the second's score is in the returned result, which has a recorded step.
C16_Witness ==
    /\ Returned
    /\ Len(evalLog) = 2
    /\ evalLog[1].name # evalLog[2].name
    /\ evalLog[1].outcome = "raised"
    /\ evalLog[2].outcome = "returned"
    /\ DOMAIN result.eval_scores = {evalLog[2].name}
    /\ result.eval_scores[evalLog[2].name] = evalLog[2].score
    /\ Len(result.steps) = 1

\* Call i of the evaluator log returned a score.
Scored(i) == evalLog[i].outcome = "returned"

\* C17 (as stated): whatever the termination reason, the evaluators are
\* called only after the control loop has ended, each exactly once and in
\* configured order, and the returned result holds, under the evaluator's
\* name, the score of every evaluator that returned one.
C17_EachScoreStored ==
    /\ evalLog # << >> => LoopOver
    /\ EvaluatorsInOrder
    /\ Returned =>
          /\ Len(evalLog) = Len(evaluators)
          /\ \A i \in 1..Len(evalLog) :
                Scored(i) =>
                    /\ evalLog[i].name \in DOMAIN result.eval_scores
                    /\ result.eval_scores[evalLog[i].name] = evalLog[i].score

\* C17 (amended): the same, except that of several evaluators of one name
\* that returned a score the returned result holds the score of the last
\* one only; eval_scores has no other entries.
C17_LastScoreOfEachNameStored ==
    /\ evalLog # << >> => LoopOver
    /\ EvaluatorsInOrder
    /\ Returned =>
          /\ Len(evalLog) = Len(evaluators)
          /\ DOMAIN result.eval_scores =
                { evalLog[i].name : i \in { j \in 1..Len(evalLog) : Scored(j) } }
          /\ \A i \in 1..Len(evalLog) :
                (/\ Scored(i)
                 /\ \A j \in (i + 1)..Len(evalLog) :
                       ~(Scored(j) /\ evalLog[j].name = evalLog[i].name))
                => result.eval_scores[evalLog[i].name] = evalLog[i].score

\* C17 witness: a run that ended with TIMEOUT returned with the different
\* scores of two evaluators of one name, the second one being held.
C17_Witness ==
    /\ Returned
    /\ result.termination_reason = "timeout"
    /\ Len(evalLog) = 2
    /\ evalLog[1].name = evalLog[2].name
    /\ Scored(1) /\ Scored(2)
    /\ evalLog[1].score # evalLog[2].score
    /\ result.eval_scores[evalLog[2].name] = evalLog[2].score

\* C18: on every exit of a task that had opened a session (normal end,
\* exception, cancellation while suspended) end_stream and disconnect have
\* been invoked before the task ends; in particular disconnect has been
\* invoked on every exit that follows a successful connect.
C18_SessionClosedOnEveryExit ==
    (spc = "exited" /\ shist.opened) =>
        /\ Called("end_stream")
        /\ Called("disconnect")

\* C19: a wait_for_frame that follows interact returns only a frame produced
\* after the command was applied: the frame the task holds was produced
\* with every command submitted so far applied.
C19_FrameIsFresh ==
    (spc \in {"interact", "end_stream"}) => got >= sent

\* C20: a frame delivered while the task is suspended in wait_for_frame with
\* time remaining always wakes the task, from whatever context the callback
\* is called; and the callback does nothing but store the frame and set the
\* event: where the task is, what it holds and what was asked of the client
\* are untouched by it.
C20_DeliveredFrameWakesTask ==
    /\ [](~shist.lost)
    /\ [][(_frame' # _frame \/ (_frame_event' /\ ~_frame_event)) =>
             UNCHANGED << _connected, spc, wait_left, sent, applied, got,
                          exc_val, calls >>]_vars

\* wait_for_frame hands the stored frame to its caller on this step.
FrameReturned ==
    /\ spc \in {"wait_for_frame", "waiting"}
    /\ spc' \in {"interact", "end_stream"}
    /\ got' = _frame

\* C21: the session keeps one frame slot, last frame wins: the slot always
\* holds the frame most recently delivered (frames delivered while nobody
\* waits replace one another, none is queued), and that frame is what
\* wait_for_frame returns.
C21_LastFrameWins ==
    /\ [](_frame = shist.last)
    /\ [][(spc \in {"wait_for_frame", "waiting"}
           /\ spc' \in {"interact", "end_stream"}) => got' = shist.last]_vars

\* C21 witness: a frame was replaced by a different one while nobody waited,
\* and the task holds the latest frame, produced after a command.
C21_Witness ==
    /\ spc \in {"interact", "end_stream"}
    /\ shist.overwrote
    /\ got = shist.last
    /\ got > 0

\* wait_for_frame fails with TimeoutError on this step and leaves the frame
\* slot, the flag and the connection state as they were.
TimedOut ==
    /\ spc' = "aexit"
    /\ exc_val' = "TimeoutError"
    /\ UNCHANGED << _frame, _frame_event, _connected >>

\* How a task suspended in wait_for_frame leaves it: with the frame of a
\* callback that has fired, with TimeoutError once the timeout has passed,
\* or cancelled by the host.
LeavesWait ==
    (spc = "waiting" /\ spc' # spc) =>
        \/ FrameReturned /\ _frame_event
        \/ TimedOut /\ wait_left = 0
        \/ spc' = "aexit" /\ exc_val' = "CancelledError"

\* C22 (as stated): called with the flag set wait_for_frame returns the frame
\* without suspending; otherwise it suspends until a callback fires or fails
\* with TimeoutError, leaving slot, flag and connection state unchanged.
C22_WaitForFrameReturnsIfSet ==
    [][/\ (spc = "wait_for_frame" /\ spc' # spc) =>
             IF _frame_event THEN FrameReturned
             ELSE \/ spc' = "waiting" /\ waiter' = "pending"
                  \/ TimedOut
       /\ LeavesWait]_vars

\* C22 (amended): the same for a positive timeout or none; called with a
\* timeout that is not positive wait_for_frame fails with TimeoutError even
\* if the flag is set, again leaving slot, flag and connection unchanged.
C22_WaitForFrameUnlessNoTime ==
    [][/\ (spc = "wait_for_frame" /\ spc' # spc) =>
             IF wait_left' = 0 THEN TimedOut
             ELSE IF _frame_event THEN FrameReturned
             ELSE spc' = "waiting" /\ waiter' = "pending"
       /\ LeavesWait]_vars

\* C22 witness: wait_for_frame has failed with TimeoutError before any frame
\* was delivered; slot and flag are empty and the session is connected.
C22_Witness ==
    /\ spc = "aexit"
    /\ exc_val = "TimeoutError"
    /\ _frame = NoFrame
    /\ ~_frame_event
    /\ _connected

\* C23: oracle state does not leak across runs: what the oracle sends to the
\* model for the first decision of a run holds turns of that run only.
C23_NoLeakAcrossRuns ==
    (contents # << >> /\ contents[Len(contents)].step = 0) =>
        \A i \in 1..Len(contents) :
            contents[i].scenario = contents[Len(contents)].scenario

\* C24: the per-step observer, when given, is called exactly once per
\* recorded step, in step order, with the step's index, the step just
\* recorded and the frame the oracle decided on; at each call the step is
\* already appended and counted in the totals, and no clip has been started
\* for it yet; outside the moment between recording and the call there are
\* as many calls as recorded steps. Without an observer nothing is called.
C24_ObserverOncePerStep ==
    /\ Len(observed) =
          IF on_step
          THEN Len(result.steps) - (IF pc = "on_step" THEN 1 ELSE 0)
          ELSE 0
    /\ \A i \in 1..Len(observed) :
          /\ observed[i].step_index = i - 1
          /\ observed[i].step = result.steps[i]
          /\ observed[i].frame = vlmLog[i].frame
          /\ observed[i].steps = i
          /\ observed[i].total_latency_ms = SumLatency(SubSeq(result.steps, 1, i))
          /\ observed[i].total_cost_usd = SumCost(SubSeq(result.steps, 1, i))
          /\ observed[i].clips = i

\* C24 witness: a run with an observer returned DONE after two steps, the
\* observer having been called for both.
C24_Witness ==
    /\ Returned
    /\ on_step
    /\ Len(observed) = 2
    /\ result.total_cost_usd > 0
    /\ result.termination_reason = "done"

\* The observer raised: the loop is over, nothing escaped run, the step the
\* observer was called for is recorded and counted, and neither the oracle
\* nor the environment was called after it.
ObserverAbort ==
    /\ LoopOver
    /\ raised = NULL
    /\ Len(result.steps) = Len(observed)
    /\ result.steps[Len(result.steps)] = observed[Len(observed)].step
    /\ result.total_latency_ms = SumLatency(result.steps)
    /\ result.total_cost_usd = SumCost(result.steps)
    /\ Len(vlmLog) = Len(observed)
    /\ LastCall.outcome = "returned"
    /\ Len(clipLog) = Len(observed)

\* C25 (as stated): an observer that raises at step i ends the run with
\* ERROR and the message recorded, nothing reaching the caller of run;
\* step i stays recorded and counted, and no further oracle call or
\* environment command is made.
C25_ObserverFailureIsError ==
    hist.failed = "observer" =>
        /\ ObserverAbort
        /\ result.termination_reason = "error"
        /\ result.error = hist.msg

\* C25 (amended): the same, except that an observer raising an error of the
\* timeout class ends the run with TIMEOUT and no message.
C25_ObserverFailureEndsRun ==
    hist.failed = "observer" =>
        /\ ObserverAbort
        /\ result.termination_reason =
              IF hist.exc = "TimeoutError" THEN "timeout" ELSE "error"
        /\ result.error = IF hist.exc = "TimeoutError" THEN NULL ELSE hist.msg

\* C25 witness: the observer raised when called for the second step, and
\* the run returned ERROR with both steps recorded.
C25_Witness ==
    /\ Returned
    /\ hist.failed = "observer"
    /\ Len(result.steps) = 2
    /\ result.termination_reason = "error"
    /\ result.error = "boom"

\* C26: the first clip is started with the scenario's prompt and image; the
\* clip after step k is started after a non-done answer only, with the
\* prompt the runner's builder makes of the previous clip's prompt and the
\* action of step k (the default builder: the previous prompt followed by
\* the action's command text) and with the frame step k was decided on; and
\* the frame the oracle is given at a step is the last frame of the clip
\* started last.
C26_ClipChaining ==
    /\ \A i \in 1..Len(clipLog) :
          IF i = 1
          THEN clipLog[i] = [prompt |-> ScenarioPrompt, image |-> ScenarioImage]
          ELSE /\ i - 1 <= Len(result.steps)
               /\ vlmLog[i - 1].outcome = "returned"
               /\ ~vlmLog[i - 1].resp.done
               /\ clipLog[i].image = vlmLog[i - 1].frame
               /\ clipLog[i].prompt =
                     IF prompt_builder = NULL
                     THEN clipLog[i - 1].prompt
                             \o << "\n\n", result.steps[i - 1].action >>
                     ELSE CustomBuilder(clipLog[i - 1].prompt,
                                        result.steps[i - 1].action)
    /\ \A k \in 1..Len(vlmLog) :
          /\ k <= Len(clipLog)
          /\ vlmLog[k].frame = k
    /\ pc \in {"sleep", "get_simulate_status", "download", "extract"} =>
          current_prompt = clipLog[Len(clipLog)].prompt

\* C26 witness: with the default builder the third clip was started with
\* the scenario's prompt followed by the actions of the two steps.
C26_Witness ==
    /\ prompt_builder = NULL
    /\ Len(clipLog) = 3
    /\ clipLog[3].image = 2
    /\ clipLog[3].prompt =
          << "scenario.prompt", "\n\n", "move_forward", "\n\n", "pick_up" >>

\* The scores returned by the exact path evaluator so far.
ExactScores == { i \in 1..Len(scores) : scores[i].name = "exact_path" }

\* C27: whenever the expected and the recorded actions differ in number,
\* the exact path evaluator returns score 0.0 and passed = false, with a
\* length-mismatch detail that carries both counts.
C27_LengthMismatchScoresZero ==
    Len(expected_actions) # Len(eresult.steps) =>
        \A i \in ExactScores :
            /\ scores[i].score.num = 0
            /\ scores[i].passed = FALSE
            /\ scores[i].details =
                  [reason |-> "length_mismatch",
                   expected_count |-> Len(expected_actions),
                   actual_count |-> Len(eresult.steps)]

\* C27 witness: a result with two steps was scored against one expected
\* action that equals the first step's.
C27_Witness ==
    /\ ExactScores # {}
    /\ Len(expected_actions) = 1
    /\ Len(eresult.steps) = 2
    /\ eresult.steps[1].action = expected_actions[1]

\* The positions at which expected and recorded action have the same name
\* and, if parameters are checked, equal parameter maps.
MatchingPositions ==
    { p \in 1..Len(expected_actions) :
        /\ expected_actions[p].name = eresult.steps[p].action.name
        /\ check_parameters =>
              expected_actions[p].parameters = eresult.steps[p].action.parameters }

\* C28: for lists of equal length the exact path evaluator's score is the
\* number of matching positions divided by the expected length, and passed
\* holds exactly when every position matches; identical lists score 1.0
\* and pass, and so do two empty lists.
C28_ScoreIsShareOfMatches ==
    Len(expected_actions) = Len(eresult.steps) =>
        \A i \in ExactScores :
            /\ IF expected_actions = << >>
               THEN IsOne(scores[i].score)
               ELSE /\ scores[i].score.num = Cardinality(MatchingPositions)
                    /\ scores[i].score.den = Len(expected_actions)
            /\ scores[i].passed <=>
                  MatchingPositions = 1..Len(expected_actions)
            /\ expected_actions = [p \in 1..Len(eresult.steps) |->
                                      eresult.steps[p].action]
                  => IsOne(scores[i].score) /\ scores[i].passed

\* C28 witness: with parameters checked, two expected actions were compared
\* with two steps of which the second has the expected name but other
\* parameters: the score is one half and the result does not pass.
C28_Witness ==
    /\ ExactScores # {}
    /\ check_parameters
    /\ Len(expected_actions) = 2
    /\ Len(eresult.steps) = 2
    /\ MatchingPositions = {1}
    /\ expected_actions[2].name = eresult.steps[2].action.name
    /\ \A i \in ExactScores : scores[i].score = Ratio(1, 2) /\ ~scores[i].passed

\* C29: the exact path evaluator is idempotent: all its calls on the same
\* scenario and result return the same EvalScore (name, score, passed and
\* details), whatever was called or stored between them.
C29_ExactPathIdempotent ==
    \A i, j \in ExactScores : scores[i] = scores[j]

\* C29 witness: the exact path evaluator was called, the runner stored its
\* score in the result, the composite evaluator was called, and the exact
\* path evaluator was called again, on lists of equal length.
C29_Witness ==
    /\ Len(scores) = 3
    /\ ExactScores = {1, 3}
    /\ ~merged
    /\ "exact_path" \in DOMAIN eresult.eval_scores
    /\ Len(expected_actions) = 1
    /\ Len(eresult.steps) = 1

\* C30: a call of evaluate, of the exact path or of the composite
\* evaluator, leaves the result as it is; the result changes only when the
\* runner stores the score just returned, and then only eval_scores
\* changes, by the entry under the score's name.
C30_EvaluateLeavesResult ==
    [][/\ scores' # scores => eresult' = eresult
       /\ eresult' # eresult =>
             /\ scores' = scores
             /\ scores # << >>
             /\ LET score == scores[Len(scores)] IN
                   eresult' =
                      [eresult EXCEPT !.eval_scores =
                          (score.name :> [score |-> score.score,
                                          passed |-> score.passed,
                                          details |-> score.details]) @@ @]]_vars

\* C30 witness: both evaluators were called on a result with steps and the
\* runner stored both scores.
C30_Witness ==
    /\ merged
    /\ Len(scores) = 2
    /\ DOMAIN eresult.eval_scores = {"exact_path", "composite"}
    /\ _evaluators # << >>
    /\ eresult.steps # << >>
    /\ eresult.termination_reason = "max_steps"

\* The call of the composite evaluator has returned its score.
CompositeReturned == cpc = "returned" /\ composite_score.name = "composite"

\* C31: for a non-empty list of sub-evaluators the composite score is the
\* arithmetic mean of the sub-scores, and passed is: under AND, every
\* sub-evaluator passed; under OR, at least one passed; under THRESHOLD,
\* the mean is greater than or equal to the threshold.
C31_CompositeMeanAndModes ==
    (CompositeReturned /\ sub_evaluators # << >>) =>
        LET n == Len(sub_scores)
            total == SumScores(sub_scores)
            mean == composite_score.score
        IN  /\ mean.num * total.den * n = total.num * mean.den
            /\ composite_score.passed <=>
                  CASE combine_mode = "and" ->
                          \A i \in 1..n : sub_scores[i].passed
                    [] combine_mode = "or" ->
                          \E i \in 1..n : sub_scores[i].passed
                    [] combine_mode = "threshold" ->
                          mean.num * _threshold.den >= _threshold.num * mean.den

\* C31 witness: under THRESHOLD with threshold one half, two sub-evaluators
\* that both report passed = false scored 0 and 1: the mean equals the
\* threshold and the composite passes.
C31_Witness ==
    /\ CompositeReturned
    /\ combine_mode = "threshold"
    /\ _threshold = Ratio(1, 2)
    /\ Len(sub_scores) = 2
    /\ sub_scores[1].score = Ratio(0, 1) /\ ~sub_scores[1].passed
    /\ sub_scores[2].score = Ratio(1, 1) /\ ~sub_scores[2].passed
    /\ composite_score.passed

\* The sub-evaluators at positions 1..k were invoked, once each and in order.
InvokedUpTo(k) == invocations = [i \in 1..k |-> i]

\* The details returned list the sub-evaluators' name, score and passed, one
\* triple each, in list order.
DetailsInOrder ==
    /\ Len(composite_score.details.sub_scores) = Len(sub_evaluators)
    /\ \A i \in 1..Len(sub_evaluators) :
          /\ composite_score.details.sub_scores[i].name = sub_evaluators[i]
          /\ composite_score.details.sub_scores[i].score = sub_scores[i].score
          /\ composite_score.details.sub_scores[i].passed = sub_scores[i].passed

\* C32 (as stated): whatever the mode and whatever the earlier
\* sub-evaluators did, by the end of the call every sub-evaluator was
\* invoked exactly once, in list order, and the details returned hold one
\* name/score/passed triple per sub-evaluator, in the same order.
C32_NoShortCircuit ==
    /\ InvokedUpTo(Len(invocations))
    /\ cpc # "loop" => InvokedUpTo(Len(sub_evaluators))
    /\ CompositeReturned => DetailsInOrder

\* C32 (amended): the same for every call that returns; when a
\* sub-evaluator raises, the sub-evaluators up to it were invoked once each,
\* in list order, those after it are not invoked, and nothing is returned.
C32_NoShortCircuitUnlessRaised ==
    /\ InvokedUpTo(Len(invocations))
    /\ Len(invocations) <= Len(sub_evaluators)
    /\ CompositeReturned => InvokedUpTo(Len(sub_evaluators)) /\ DetailsInOrder
    /\ cpc = "raised" =>
          /\ Len(invocations) = Len(sub_scores) + 1
          /\ composite_score = NoCompositeScore

\* C32 witness: under AND the first of two sub-evaluators did not pass, the
\* second was invoked all the same, and the score was returned.
C32_Witness ==
    /\ CompositeReturned
    /\ combine_mode = "and"
    /\ Len(sub_evaluators) = 2
    /\ ~sub_scores[1].passed
    /\ invocations = << 1, 2 >>

\* C33: with an empty list of sub-evaluators the composite score is 1.0 and
\* passed follows the mode: true under AND, false under OR (no
\* sub-evaluator passed), and under THRESHOLD true exactly when 1.0 is
\* greater than or equal to the threshold.
C33_EmptyFollowsMode ==
    (CompositeReturned /\ sub_evaluators = << >>) =>
        /\ composite_score.score.num = composite_score.score.den
        /\ composite_score.passed <=>
              CASE combine_mode = "and" -> TRUE
                [] combine_mode = "or" -> FALSE
                [] combine_mode = "threshold" ->
                      _threshold.den >= _threshold.num

\* Whether result i of the report counts as passed: by its termination
\* reason if it has no scores, otherwise by its scores all having
\* passed = true.
CountsAsPassed(i) ==
    IF DOMAIN _results[i].eval_scores = {}
    THEN _results[i].termination_reason = "done"
    ELSE \A name \in DOMAIN _results[i].eval_scores :
            /\ "passed" \in DOMAIN _results[i].eval_scores[name]
            /\ _results[i].eval_scores[name].passed

\* C34: ScenarioResult.passed holds, for a result without eval scores,
\* exactly when its termination reason is DONE, and for a result with eval
\* scores exactly when every stored score has passed = true, a score
\* without a passed entry counting as false.
C34_PassedByScoresOrReason ==
    \A i \in 1..Len(report.to_dict) :
        report.to_dict[i].passed <=> CountsAsPassed(i)

\* C34 witness: the report was read with a result that ended DONE and whose
\* only score has no passed entry, and with a result that ended with ERROR
\* and whose only score passed.
C34_Witness ==
    /\ Len(report.to_dict) = 2
    /\ _results[1].termination_reason = "done"
    /\ _results[1].eval_scores = ("exact_path" :> [score |-> 1])
    /\ ~report.to_dict[1].passed
    /\ _results[2].termination_reason = "error"
    /\ report.to_dict[2].passed

\* What to_dict gives for result i of the report: its name, whether it
\* passed, its termination reason, step count, totals, eval scores and
\* error.
SummaryOf(i) ==
    [name |-> _results[i].scenario.name,
     passed |-> CountsAsPassed(i),
     termination_reason |-> _results[i].termination_reason,
     steps |-> Len(_results[i].steps),
     total_latency_ms |-> _results[i].total_latency_ms,
     total_cost_usd |-> _results[i].total_cost_usd,
     eval_scores |-> _results[i].eval_scores,
     error |-> _results[i].error]

\* C35: a report only collects and presents.  add puts the result, as it
\* is, after the results added before and changes none of them; all_passed
\* holds exactly when every added result passed (so it holds for the empty
\* report); to_dict gives one summary per added result, in insertion order,
\* with the passed flag, termination reason, step count, totals, eval scores
\* and error of that result.
C35_ReportOnlyCollects ==
    [][ /\ _results' # _results
            => \E res \in ReportResults : _results' = _results \o << res >>
        /\ report' # report
            => /\ _results' = _results
               /\ report'.all_passed
                    <=> \A i \in 1..Len(_results) : CountsAsPassed(i)
               /\ Len(report'.to_dict) = Len(_results)
               /\ \A i \in 1..Len(_results) :
                      report'.to_dict[i] = SummaryOf(i) ]_vars

\* C35 witness: a report with two different results, the first of which
\* passed and the second of which did not, was read: all_passed is false
\* and the summaries are in the order of the additions.
C35_Witness ==
    /\ report.read
    /\ Len(_results) = 2
    /\ Len(report.to_dict) = 2
    /\ _results[1].termination_reason = "done"
    /\ _results[2].termination_reason = "timeout"
    /\ report.to_dict[1].passed
    /\ ~report.to_dict[2].passed
    /\ report.to_dict[2].termination_reason = "timeout"
    /\ ~report.all_passed

\* C36: no step is lost or counted twice.  The recorded steps carry the
\* step indexes 0, 1, ..., n-1 in that order and there is one of them per
\* answer of the oracle; the call of the oracle for step i is given the step
\* index i and, as action history, the actions of the recorded steps
\* 0 .. i-1 in order.
C36_StepsAndCallsInStep ==
    /\ \A i \in 1..Len(result.steps) : result.steps[i].step_index = i - 1
    /\ Len(result.steps)
          = Cardinality({ i \in 1..Len(vlmLog) : vlmLog[i].outcome = "returned" })
    /\ \A i \in 1..Len(vlmLog) :
          /\ vlmLog[i].step_index = i - 1
          /\ Len(result.steps) >= i - 1
          /\ vlmLog[i].action_history
                = [j \in 1..(i - 1) |-> result.steps[j].action]
          /\ vlmLog[i].outcome = "returned"
                => result.steps[i].action = vlmLog[i].resp.action

\* C36 witness: a returned run with two recorded steps, whose second call
\* of the oracle was given step index 1 and the action of the first step.
C36_Witness ==
    /\ Returned
    /\ Len(result.steps) = 2
    /\ Len(vlmLog) = 2
    /\ vlmLog[2].step_index = 1
    /\ vlmLog[2].action_history = << "move_forward" >>
    /\ result.steps[2].action = "pick_up"

\* C37: a run that ended with ERROR is never counted as passed: whatever
\* evaluators were configured, the passed property of a returned result
\* whose termination reason is ERROR is false, and so is all_passed of a
\* report that contains it.
C37_ErrorNeverPassed ==
    (Returned /\ result.termination_reason = "error")
        => /\ ~Passed(result)
           /\ ~AllPassed(<< result >>)

\* C38: in every returned result, error is set exactly when the termination
\* reason is ERROR; in particular a result with TIMEOUT carries no error
\* message.
C38_ErrorIffErrorReason ==
    Returned =>
        /\ result.error # NULL <=> result.termination_reason = "error"
        /\ result.termination_reason = "timeout" => result.error = NULL

\* C38 witness: a run returned with TIMEOUT after asyncio.wait_for gave up
\* on the oracle with a TimeoutError, and its error is not set.
C38_Witness ==
    /\ Returned
    /\ hist.failed = "wait_for"
    /\ result.termination_reason = "timeout"
    /\ result.error = NULL

\* C39: the returned termination reason agrees with the recorded steps.  A
\* result with DONE has at least one step, and its last step is the answer
\* of the oracle that had done=true, so the DONE a fresh result starts with
\* never reaches the caller without such an answer.  A result with
\* MAX_STEPS has exactly max_steps steps, none of which had done=true.
C39_ReasonAgreesWithSteps ==
    Returned =>
        /\ result.termination_reason = "done"
              => /\ Len(result.steps) >= 1
                 /\ Len(vlmLog) = Len(result.steps)
                 /\ vlmLog[Len(vlmLog)].outcome = "returned"
                 /\ vlmLog[Len(vlmLog)].resp.done
                 /\ result.steps[Len(result.steps)].action
                       = vlmLog[Len(vlmLog)].resp.action
        /\ result.termination_reason = "max_steps"
              => /\ Len(result.steps) = max_steps
                 /\ Len(vlmLog) = max_steps
                 /\ \A i \in 1..Len(vlmLog) :
                       /\ vlmLog[i].outcome = "returned"
                       /\ ~vlmLog[i].resp.done

\* C39 witness: a run returned with DONE and two steps, the second of which
\* is the done answer of the oracle.
C39_Witness ==
    /\ Returned
    /\ result.termination_reason = "done"
    /\ Len(result.steps) = 2
    /\ vlmLog[2].resp.done
    /\ ~vlmLog[1].resp.done

\* C40: in every reachable state of the session, if the frame event is set
\* then a frame is stored in the slot, and so is one whenever the task
\* suspended in wait_for_frame has been woken: the assertion
\* `self._frame is not None` in wait_for_frame never fails and the frame it
\* returns is a frame, whatever the interleaving of connect, interact,
\* wait_for_frame, frame deliveries and disconnect.
C40_FlagImpliesFrame ==
    /\ _frame_event => _frame # NoFrame
    /\ (spc = "waiting" /\ waiter = "done") => _frame # NoFrame
    /\ got # NoFrame => _frame # NoFrame

\* C40 witness: after an interact, a frame was delivered and wait_for_frame
\* returned it, the event being set and the slot holding that frame.
C40_Witness ==
    /\ Called("interact")
    /\ _frame_event
    /\ _frame # NoFrame
    /\ got = _frame
    /\ sent >= 1

====
